---- MODULE Spec2Model ----
(***************************************************************************)
(* Model of the weekly risk-dashboard automation: the report parser        *)
(* (parse_claude_response) and the regex-anchored document patchers        *)
(* (update_main_dashboard, create_report_page) of the three pipeline       *)
(* variants weekly_automation.py ("auto"), weekly_automation_manual.py     *)
(* ("manual") and weekly_automation_with_fetch.py ("fetch").               *)
(*                                                                         *)
(* Texts are TLA+ strings, handled character by character with Len,        *)
(* SubSeq and \o.  Module strings are ASCII, so four non-ASCII glyphs of   *)
(* the source are written with one ASCII stand-in each, a character that   *)
(* occurs nowhere else in the source's literals:                           *)
(*     "@"  the bullet glyph U+2022          "~"  the em dash U+2014       *)
(*     "^"  the warning-sign emoji           "%"  the target emoji         *)
(***************************************************************************)
EXTENDS Integers, Sequences, FiniteSets, TLC

VARIABLES variant, src, response, data, raised, pc,
          meta, fixture, index_html, template_html, report_html, archive_md, runs, procs

vars ==
    <<variant, src, response, data, raised, pc,
      meta, fixture, index_html, template_html, report_html, archive_md, runs, procs>>

(***************************************************************************)
(* Bounds                                                                  *)
(***************************************************************************)
MaxBullets == 2
MaxCopies == 2
MaxRuns == 2

(***************************************************************************)
(* Characters and character classes of Python's re on str                  *)
(***************************************************************************)
Bullet == "@"
EmDash == "~"

UpperChars == "ABCDEFGHIJKLMNOPQRSTUVWXYZ"
LowerChars == "abcdefghijklmnopqrstuvwxyz"
DigitChars == "0123456789"

CharsOf(s) == {SubSeq(s, i, i) : i \in 1..Len(s)}

UpperSet == CharsOf(UpperChars)
LowerSet == CharsOf(LowerChars)
DigitSet == CharsOf(DigitChars)
WordSet == UpperSet \cup LowerSet \cup DigitSet \cup {"_"}
SpaceSet == {" ", "\t", "\n", "\r", "\f"}

\* the character at position i, or "" outside the text
Char(s, i) == IF i >= 1 /\ i <= Len(s) THEN SubSeq(s, i, i) ELSE ""

MinOf(S) == CHOOSE x \in S : \A y \in S : x <= y
MaxOf(S) == 0 - MinOf({0 - x : x \in S})

IndexIn(alphabet, c) == CHOOSE i \in 1..Len(alphabet) : Char(alphabet, i) = c

LowerMap == [c \in UpperSet |-> Char(LowerChars, IndexIn(UpperChars, c))]
UpperMap == [c \in LowerSet |-> Char(UpperChars, IndexIn(LowerChars, c))]

LowerChar(c) == IF c \in UpperSet THEN LowerMap[c] ELSE c
UpperChar(c) == IF c \in LowerSet THEN UpperMap[c] ELSE c

\* str.lower() and str.upper(), character by character (split in halves to
\* keep the recursion shallow)
RECURSIVE StrLower(_)
StrLower(s) ==
    IF Len(s) <= 1 THEN LowerChar(s)
    ELSE LET m == Len(s) \div 2
         IN  StrLower(SubSeq(s, 1, m)) \o StrLower(SubSeq(s, m + 1, Len(s)))

RECURSIVE StrUpper(_)
StrUpper(s) ==
    IF Len(s) <= 1 THEN UpperChar(s)
    ELSE LET m == Len(s) \div 2
         IN  StrUpper(SubSeq(s, 1, m)) \o StrUpper(SubSeq(s, m + 1, Len(s)))

(***************************************************************************)
(* str.strip(): drop leading and trailing whitespace                       *)
(***************************************************************************)
Strip(s) ==
    LET keep == {i \in 1..Len(s) : Char(s, i) \notin SpaceSet}
    IN  IF keep = {} THEN "" ELSE SubSeq(s, MinOf(keep), MaxOf(keep))

(***************************************************************************)
(* Literal search: index of the first occurrence of lit in s at or after   *)
(* position from, or 0                                                     *)
(***************************************************************************)
LitAt(s, lit, i) ==
    /\ i >= 1
    /\ i + Len(lit) - 1 <= Len(s)
    /\ SubSeq(s, i, i) = SubSeq(lit, 1, 1)
    /\ SubSeq(s, i, i + Len(lit) - 1) = lit

FindLit(s, lit, from) ==
    LET hits == {i \in from..(Len(s) - Len(lit) + 1) :
                    SubSeq(s, i, i) = SubSeq(lit, 1, 1) /\ SubSeq(s, i, i + Len(lit) - 1) = lit}
    IN  IF hits = {} THEN 0 ELSE MinOf(hits)

Contains(s, lit) == FindLit(s, lit, 1) # 0

\* end (exclusive) of the maximal run of characters of class C starting at i
RunEnd(s, C, i) ==
    LET stops == {j \in i..Len(s) : Char(s, j) \notin C}
    IN  IF stops = {} THEN Len(s) + 1 ELSE MinOf(stops)

\* "$" without MULTILINE: at the end of the text, or before a final newline
DollarAt(s, p) == p = Len(s) + 1 \/ (p = Len(s) /\ Char(s, p) = "\n")

\* index of the newline ending the line that contains position k, or Len+1
LineEnd(s, k) ==
    LET n == FindLit(s, "\n", k)
    IN  IF n = 0 THEN Len(s) + 1 ELSE n

(***************************************************************************)
(* Result of re.search: None, or a match with its group(1)                 *)
(***************************************************************************)
NoMatch == [found |-> FALSE, g1 |-> ""]
Match(t) == [found |-> TRUE, g1 |-> t]

\* a parser without its "if m:" guards
TruthyAlways(m) == TRUE

\* "if m:" on a re.search result
Truthy(m) == m.found

(***************************************************************************)
(* Literals of parse_claude_response                                       *)
(***************************************************************************)
RiskLabel == "Overall Release Risk Level:"
P0Header == "P0 ~"
OtherHeader == "Other Notable Changes"
ZeroHeader == "No Code Changes"
RedFlagsHeader == "Red Flags"

\* re.IGNORECASE: the literals are compared in lower case with the lowered text
LowRiskLabel == StrLower(RiskLabel)
LowP0Header == StrLower(P0Header)
LowOtherHeader == StrLower(OtherHeader)
LowZeroHeader == StrLower(ZeroHeader)
LowRedFlagsHeader == StrLower(RedFlagsHeader)

Variants == {"auto", "manual", "fetch"}

\* the 'Red Flags' alternative in the manual variant's P0 pattern as well
P0TerminatorsManualAlias(v) ==
    IF v \in {"fetch", "manual"} THEN {LowOtherHeader, LowZeroHeader, LowRedFlagsHeader}
    ELSE {LowOtherHeader, LowZeroHeader}

\* lookahead alternatives that end the P0 span and the other-changes span
P0Terminators(v) ==
    IF v = "fetch" THEN {LowOtherHeader, LowZeroHeader, LowRedFlagsHeader}
    ELSE {LowOtherHeader, LowZeroHeader}

OtherTerminators(v) ==
    IF v = "fetch" THEN {LowZeroHeader, LowRedFlagsHeader}
    ELSE {LowZeroHeader}

\* the risk pattern without its hyphenated suffix, (\w+)
RiskSearchNoSuffix(text, low) ==
    LET label == LowRiskLabel
        tok(h) == RunEnd(text, SpaceSet, h + Len(label))
        hits == {h \in 1..Len(text) : LitAt(low, label, h) /\ Char(text, tok(h)) \in WordSet}
    IN  IF hits = {} THEN NoMatch
        ELSE LET w == tok(MinOf(hits))
             IN  Match(SubSeq(text, w, RunEnd(text, WordSet, w) - 1))

(***************************************************************************)
(* re.search(r'Overall Release Risk Level:\s*(\w+(?:-\w+)?)', IGNORECASE)  *)
(***************************************************************************)
RiskSearch(text, low) ==
    LET label == LowRiskLabel
        tok(h) == RunEnd(text, SpaceSet, h + Len(label))
        hits == {h \in 1..Len(text) : LitAt(low, label, h) /\ Char(text, tok(h)) \in WordSet}
    IN  IF hits = {} THEN NoMatch
        ELSE LET w == tok(MinOf(hits))
                 e1 == RunEnd(text, WordSet, w)
                 e2 == IF Char(text, e1) = "-" /\ Char(text, e1 + 1) \in WordSet
                       THEN RunEnd(text, WordSet, e1 + 1)
                       ELSE e1
             IN  Match(SubSeq(text, w, e2 - 1))

(***************************************************************************)
(* re.search(r'<header>.*?\n(.*?)(?=<t1>|<t2>|$)', DOTALL | IGNORECASE):   *)
(* the span from the first newline after the first occurrence of the       *)
(* header up to the first terminator or "$"; low is the lowered text, and  *)
(* header and terms are lowered literals                                   *)
(***************************************************************************)
SectionSearch(text, low, header, terms) ==
    LET h == FindLit(low, header, 1)
        nl == IF h = 0 THEN 0 ELSE FindLit(text, "\n", h + Len(header))
        start == nl + 1
        ends == {p \in start..(Len(text) + 1) :
                    DollarAt(text, p) \/ \E t \in terms : LitAt(low, t, p)}
    IN  IF h = 0 \/ nl = 0 THEN NoMatch
        ELSE Match(SubSeq(text, start, MinOf(ends) - 1))

(***************************************************************************)
(* re.findall(r'@\s*(.+)', span): "." stops at a newline, "\s*" does not   *)
(***************************************************************************)
RECURSIVE BulletsFrom(_, _)
BulletsFrom(t, pos) ==
    LET b == FindLit(t, Bullet, pos)
        j == RunEnd(t, SpaceSet, b + 1)
        back == {i \in (b + 1)..Len(t) : Char(t, i) # "\n"}
        k == IF j <= Len(t) THEN j
             ELSE IF back = {} THEN 0 ELSE MaxOf(back)
        e == LineEnd(t, k)
    IN  IF b = 0 THEN <<>>
        ELSE IF k = 0 THEN BulletsFrom(t, b + 1)
        ELSE <<SubSeq(t, k, e - 1)>> \o BulletsFrom(t, e)

FindBullets(t) == BulletsFrom(t, 1)

\* [b.strip() for b in bullets if b.strip()]
RECURSIVE StripNonEmpty(_)
StripNonEmpty(bs) ==
    IF bs = <<>> THEN <<>>
    ELSE (IF Strip(Head(bs)) # "" THEN <<Strip(Head(bs))>> ELSE <<>>) \o StripNonEmpty(Tail(bs))

\* a ticket search that takes the last match instead of the first
TicketSearchLast(b) ==
    LET dash(i) == RunEnd(b, UpperSet, i)
        starts == {i \in 1..Len(b) : /\ Char(b, i) \in UpperSet
                                     /\ Char(b, i - 1) \notin UpperSet
                                     /\ Char(b, dash(i)) = "-"
                                     /\ Char(b, dash(i) + 1) \in DigitSet}
    IN  IF starts = {} THEN NoMatch
        ELSE LET i == MaxOf(starts)
             IN  Match(SubSeq(b, i, RunEnd(b, DigitSet, dash(i) + 1) - 1))

(***************************************************************************)
(* re.search(r'([A-Z]+-\d+)', bullet)                                      *)
(***************************************************************************)
TicketSearch(b) ==
    LET dash(i) == RunEnd(b, UpperSet, i)
        starts == {i \in 1..Len(b) : /\ Char(b, i) \in UpperSet
                                     /\ Char(b, dash(i)) = "-"
                                     /\ Char(b, dash(i) + 1) \in DigitSet}
    IN  IF starts = {} THEN NoMatch
        ELSE LET i == MinOf(starts)
             IN  Match(SubSeq(b, i, RunEnd(b, DigitSet, dash(i) + 1) - 1))

\* bullet.rsplit(sep, 1): a split on the last separator
SplitOnceLast(b, sep) ==
    LET hits == {i \in 1..Len(b) : LitAt(b, sep, i)}
    IN  IF hits = {} THEN <<b>>
        ELSE <<SubSeq(b, 1, MaxOf(hits) - 1), SubSeq(b, MaxOf(hits) + Len(sep), Len(b))>>

\* bullet.split(sep, 1)
SplitOnce(b, sep) ==
    LET p == FindLit(b, sep, 1)
    IN  IF p = 0 THEN <<b>>
        ELSE <<SubSeq(b, 1, p - 1), SubSeq(b, p + Len(sep), Len(b))>>

P0Item(bullet) ==
    LET ticket_match == TicketSearch(bullet)
        parts == SplitOnce(bullet, EmDash)
    IN  [ticket |-> IF Truthy(ticket_match) THEN ticket_match.g1 ELSE "",
         title |-> IF Len(parts) = 2 THEN Strip(parts[1]) ELSE Strip(bullet),
         description |-> IF Len(parts) = 2 THEN Strip(parts[2]) ELSE "",
         full_text |-> Strip(bullet)]

(***************************************************************************)
(* re.search(r'No Code Changes.*?\n@\s*(.+)', DOTALL | IGNORECASE): with   *)
(* DOTALL the group runs to the end of the text                            *)
(***************************************************************************)
ZeroSearch(text, low) ==
    LET h == FindLit(low, LowZeroHeader, 1)
        cands == {q \in (h + Len(ZeroHeader))..Len(text) :
                     Char(text, q) = "\n" /\ Char(text, q + 1) = Bullet /\ q + 2 <= Len(text)}
    IN  IF h = 0 \/ cands = {} THEN NoMatch
        ELSE LET q == MinOf(cands)
                 j == RunEnd(text, SpaceSet, q + 2)
                 k == IF j <= Len(text) THEN j ELSE Len(text)
             IN  Match(SubSeq(text, k, Len(text)))

(***************************************************************************)
(* parse_claude_response.  raised models the AttributeError of calling     *)
(* .group(1) on None: the matches whose group is read are those the        *)
(* "if m:" guards let through.                                             *)
(***************************************************************************)
DefaultData ==
    [riskLevel |-> "MEDIUM", summary |-> <<>>, p0Items |-> <<>>,
     otherChanges |-> <<>>, zeroRisk |-> ""]

parse_claude_response(text, v) ==
    LET low == StrLower(text)
        risk_match == RiskSearch(text, low)
        summary_section == SectionSearch(text, low, LowRiskLabel, {LowP0Header})
        p0_section == SectionSearch(text, low, LowP0Header, P0Terminators(v))
        other_section == SectionSearch(text, low, LowOtherHeader, OtherTerminators(v))
        zero_section == ZeroSearch(text, low)
        p0_bullets == FindBullets(p0_section.g1)
        read == {m \in {risk_match, summary_section, p0_section, other_section, zero_section} :
                    Truthy(m)}
    IN  [raised |-> \E m \in read : ~m.found,
         data |->
           [riskLevel |-> IF Truthy(risk_match) THEN StrUpper(risk_match.g1)
                          ELSE DefaultData.riskLevel,
            summary |-> IF Truthy(summary_section)
                        THEN StripNonEmpty(FindBullets(summary_section.g1))
                        ELSE DefaultData.summary,
            p0Items |-> IF Truthy(p0_section)
                        THEN [i \in 1..Len(p0_bullets) |-> P0Item(p0_bullets[i])]
                        ELSE DefaultData.p0Items,
            otherChanges |-> IF Truthy(other_section)
                             THEN StripNonEmpty(FindBullets(other_section.g1))
                             ELSE DefaultData.otherChanges,
            zeroRisk |-> IF Truthy(zero_section) THEN Strip(zero_section.g1)
                         ELSE DefaultData.zeroRisk]]

(***************************************************************************)
(* Python's re on the patterns the patchers use.  A pattern is a sequence  *)
(* of elements: a literal, a greedy run of a character class (min or more  *)
(* characters), a lazy run of a class (".*?"), an optional sub-pattern,    *)
(* and the marks "(" and ")" of the capturing groups.  A class is a set    *)
(* of characters or, negated, the characters outside a set.                *)
(***************************************************************************)
Lit(s) == [k |-> "lit", s |-> s, neg |-> FALSE, c |-> {}, min |-> 0, sub |-> <<>>]
Cls(c, min) == [k |-> "cls", s |-> "", neg |-> FALSE, c |-> c, min |-> min, sub |-> <<>>]
NotCls(c, min) == [k |-> "cls", s |-> "", neg |-> TRUE, c |-> c, min |-> min, sub |-> <<>>]
\* ".*?": a lazy run of the characters outside c ({} with re.DOTALL, the line
\* break without)
Lazy(c) == [k |-> "lazy", s |-> "", neg |-> TRUE, c |-> c, min |-> 0, sub |-> <<>>]
Mark == [k |-> "mark", s |-> "", neg |-> FALSE, c |-> {}, min |-> 0, sub |-> <<>>]

\* "(?:sub)?": the elements of sub, or nothing when they do not match
Opt(sub) == [k |-> "opt", s |-> "", neg |-> FALSE, c |-> {}, min |-> 0, sub |-> sub]

InClass(e, ch) == ch # "" /\ ((ch \in e.c) # e.neg)

\* end (exclusive) of the maximal run of characters of the class of e at p,
\* looked for 32 characters at a time
RECURSIVE ClassRunEnd(_, _, _)
ClassRunEnd(text, e, p) ==
    LET last == IF p + 31 < Len(text) THEN p + 31 ELSE Len(text)
        stops == {q \in p..last : ~InClass(e, Char(text, q))}
    IN  IF p > Len(text) \/ (e.neg /\ e.c = {}) THEN Len(text) + 1
        ELSE IF stops # {} THEN MinOf(stops)
        ELSE ClassRunEnd(text, e, last + 1)

NoMatchAt == [found |-> FALSE, start |-> 0, end |-> 0, marks |-> <<>>]

\* whether a match of pat[j..] can begin at q, judged by its first element
RECURSIVE CanStart(_, _, _, _)
CanStart(pat, j, text, q) ==
    IF j > Len(pat) THEN TRUE
    ELSE LET e == pat[j]
         IN  CASE e.k = "lit" -> LitAt(text, e.s, q)
               [] e.k = "mark" -> CanStart(pat, j + 1, text, q)
               [] e.k = "cls" -> \/ InClass(e, Char(text, q))
                                 \/ (e.min = 0 /\ CanStart(pat, j + 1, text, q))
               [] OTHER -> TRUE

\* the positions of from..to where a match of pat[j..] can begin, ascending
Candidates(pat, j, text, from, to) ==
    SelectSeq([i \in 1..(to - from + 1) |-> from + i - 1],
              LAMBDA q : CanStart(pat, j, text, q))

(***************************************************************************)
(* The match of pat[j..] at position p the backtracking matcher finds      *)
(* first: a greedy run gives back characters from its longest extent, a    *)
(* lazy run takes characters from its shortest.  marks are the positions   *)
(* of the group marks, in pattern order.  FirstIn and LastIn give the      *)
(* match at the first (last) of the positions cs[lo..hi] that has one.     *)
(***************************************************************************)
RECURSIVE MatchFrom(_, _, _, _)
RECURSIVE FirstIn(_, _, _, _, _, _)
RECURSIVE LastIn(_, _, _, _, _, _)

FirstIn(pat, j, text, cs, lo, hi) ==
    IF lo > hi THEN NoMatchAt
    ELSE IF lo = hi THEN MatchFrom(pat, j, text, cs[lo])
    ELSE LET mid == (lo + hi) \div 2
             r == FirstIn(pat, j, text, cs, lo, mid)
         IN  IF r.found THEN r ELSE FirstIn(pat, j, text, cs, mid + 1, hi)

LastIn(pat, j, text, cs, lo, hi) ==
    IF lo > hi THEN NoMatchAt
    ELSE IF lo = hi THEN MatchFrom(pat, j, text, cs[lo])
    ELSE LET mid == (lo + hi) \div 2
             r == LastIn(pat, j, text, cs, mid + 1, hi)
         IN  IF r.found THEN r ELSE LastIn(pat, j, text, cs, lo, mid)

MatchFrom(pat, j, text, p) ==
    IF j > Len(pat) THEN [found |-> TRUE, start |-> p, end |-> p, marks |-> <<>>]
    ELSE LET e == pat[j]
         IN  CASE e.k = "lit" ->
                    IF LitAt(text, e.s, p)
                    THEN [MatchFrom(pat, j + 1, text, p + Len(e.s)) EXCEPT !.start = p]
                    ELSE NoMatchAt
               [] e.k = "mark" ->
                    LET r == MatchFrom(pat, j + 1, text, p)
                    IN  IF r.found THEN [r EXCEPT !.start = p, !.marks = <<p>> \o @]
                        ELSE NoMatchAt
               [] e.k = "cls" ->
                    LET run == ClassRunEnd(text, e, p)
                        longest == MatchFrom(pat, j + 1, text, run)
                        cs == Candidates(pat, j + 1, text, p + e.min, run - 1)
                    IN  IF run - p < e.min THEN NoMatchAt
                        ELSE IF longest.found THEN [longest EXCEPT !.start = p]
                        ELSE [LastIn(pat, j + 1, text, cs, 1, Len(cs)) EXCEPT !.start = p]
               [] e.k = "opt" ->
                    LET with == MatchFrom(e.sub \o SubSeq(pat, j + 1, Len(pat)), 1, text, p)
                    IN  IF with.found THEN with ELSE MatchFrom(pat, j + 1, text, p)
               [] e.k = "lazy" ->
                    LET run == ClassRunEnd(text, e, p)
                        cs == Candidates(pat, j + 1, text, p, run)
                    IN  [FirstIn(pat, j + 1, text, cs, 1, Len(cs)) EXCEPT !.start = p]

\* re.search from position from: the leftmost match
Search(pat, text, from) ==
    LET cs == Candidates(pat, 1, text, from, Len(text) + 1)
    IN  FirstIn(pat, 1, text, cs, 1, Len(cs))

\* group(0), group(1), ... of a match
Groups(text, m) ==
    [n \in 0..(Len(m.marks) \div 2) |->
        IF n = 0 THEN SubSeq(text, m.start, m.end - 1)
        ELSE SubSeq(text, m.marks[2 * n - 1], m.marks[2 * n] - 1)]

(***************************************************************************)
(* The replacement template of re.sub (re's parse_template): "\" + digits  *)
(* is a group reference of one or two digits, or, with three octal digits  *)
(* or a leading 0, the character of that octal code; a reference to a      *)
(* group the pattern does not have is an error, as is "\" + an ASCII       *)
(* letter that is no escape.                                               *)
(***************************************************************************)
DigitVal(c) == IndexIn(DigitChars, c) - 1

\* chr(n); a code the module's strings cannot hold is written "?"
Chr(n) ==
    LET \* ASCII 32..126 (the grave accent, which a module string cannot hold, as "?")
        Printable ==
            " !\"#$%&'()*+,-./0123456789:;<=>?@ABCDEFGHIJKLMNOPQRSTUVWXYZ[\\]^_?abcdefghijklmnopqrstuvwxyz{|}~"
    IN
    IF n >= 32 /\ n <= 126 THEN Char(Printable, n - 31)
    ELSE IF n = 9 THEN "\t" ELSE IF n = 10 THEN "\n"
    ELSE IF n = 12 THEN "\f" ELSE IF n = 13 THEN "\r"
    ELSE "?"

\* the escape beginning with the backslash at position b of template t,
\* for a pattern of ng groups
Escape(t, b, ng) ==
    LET c1 == Char(t, b + 1)
        c2 == Char(t, b + 2)
        c3 == Char(t, b + 3)
        close == FindLit(t, ">", b + 3)
        name == SubSeq(t, b + 3, close - 1)
        num == IF Len(name) = 1 THEN DigitVal(name)
               ELSE 10 * DigitVal(SubSeq(name, 1, 1)) + DigitVal(SubSeq(name, 2, 2))
        OctSet == {"0", "1", "2", "3", "4", "5", "6", "7"}
        BadEscape == [err |-> TRUE, len |-> 0, grp |-> -1, chr |-> ""]
        GroupRef(n, len) ==
            IF n > ng THEN BadEscape ELSE [err |-> FALSE, len |-> len, grp |-> n, chr |-> ""]
        CharEscape(ch, len) == [err |-> FALSE, len |-> len, grp |-> -1, chr |-> ch]
    IN  IF c1 = "" THEN BadEscape
        ELSE IF c1 = "g" THEN
            IF c2 = "<" /\ close # 0 /\ Len(name) \in {1, 2}
               /\ \A i \in 1..Len(name) : Char(name, i) \in DigitSet
            THEN GroupRef(num, close - b + 1)
            ELSE BadEscape
        ELSE IF c1 = "0" THEN
            IF c2 \in OctSet /\ c3 \in OctSet
            THEN CharEscape(Chr((8 * DigitVal(c2) + DigitVal(c3)) % 256), 4)
            ELSE IF c2 \in OctSet THEN CharEscape(Chr(DigitVal(c2)), 3)
            ELSE CharEscape(Chr(0), 2)
        ELSE IF c1 \in DigitSet THEN
            IF c2 \in DigitSet THEN
                IF c1 \in OctSet /\ c2 \in OctSet /\ c3 \in OctSet
                THEN IF DigitVal(c1) > 3 THEN BadEscape
                     ELSE CharEscape(Chr(64 * DigitVal(c1) + 8 * DigitVal(c2) + DigitVal(c3)), 4)
                ELSE GroupRef(10 * DigitVal(c1) + DigitVal(c2), 3)
            ELSE GroupRef(DigitVal(c1), 2)
        ELSE IF c1 = "n" THEN CharEscape("\n", 2)
        ELSE IF c1 = "t" THEN CharEscape("\t", 2)
        ELSE IF c1 = "r" THEN CharEscape("\r", 2)
        ELSE IF c1 = "f" THEN CharEscape("\f", 2)
        ELSE IF c1 = "a" THEN CharEscape(Chr(7), 2)
        ELSE IF c1 = "b" THEN CharEscape(Chr(8), 2)
        ELSE IF c1 = "v" THEN CharEscape(Chr(11), 2)
        ELSE IF c1 = "\\" THEN CharEscape("\\", 2)
        ELSE IF c1 \in UpperSet \cup LowerSet THEN BadEscape
        ELSE CharEscape("\\" \o c1, 2)

\* the template t from position i on, expanded with the groups g of a match
RECURSIVE ExpandFrom(_, _, _, _)
ExpandFrom(t, i, ng, g) ==
    LET b == FindLit(t, "\\", i)
        e == Escape(t, b, ng)
        rest == ExpandFrom(t, b + e.len, ng, g)
    IN  IF b = 0 THEN [err |-> FALSE, text |-> SubSeq(t, i, Len(t))]
        ELSE IF e.err \/ rest.err THEN [err |-> TRUE, text |-> ""]
        ELSE [err |-> FALSE,
              text |-> SubSeq(t, i, b - 1) \o (IF e.grp >= 0 THEN g[e.grp] ELSE e.chr)
                       \o rest.text]

\* the text from position from on, with the matches of pat replaced: the
\* first one only (count = 1) or all of them (count = 0)
RECURSIVE SubFrom(_, _, _, _, _, _)
SubFrom(pat, ng, repl, text, from, count) ==
    LET m == Search(pat, text, from)
        new == ExpandFrom(repl, 1, ng, Groups(text, m)).text
    IN  IF ~m.found THEN SubSeq(text, from, Len(text))
        ELSE SubSeq(text, from, m.start - 1) \o new
             \o (IF count = 1 THEN SubSeq(text, m.end, Len(text))
                 ELSE SubFrom(pat, ng, repl, text, m.end, count))

\* a patcher's buffer: the text, and whether an exception has been raised
Buffer(text) == [err |-> FALSE, content |-> text]
Raise(buf) == [buf EXCEPT !.err = TRUE]

\* content = re.sub(pat, repl, content, count=count); re.error is raised
\* when the template is compiled, match or no match
Sub(pat, ng, repl, buf, count) ==
    IF buf.err THEN buf
    ELSE IF ExpandFrom(repl, 1, ng, [n \in 0..ng |-> ""]).err THEN Raise(buf)
    ELSE Buffer(SubFrom(pat, ng, repl, buf.content, 1, count))

\* text.replace(old, new) from position from on
RECURSIVE ReplaceFrom(_, _, _, _)
ReplaceFrom(text, old, new, from) ==
    LET p == FindLit(text, old, from)
    IN  IF p = 0 THEN SubSeq(text, from, Len(text))
        ELSE SubSeq(text, from, p - 1) \o new \o ReplaceFrom(text, old, new, p + Len(old))

\* content = content.replace(old, new)
StrReplace(old, new, buf) ==
    IF buf.err THEN buf ELSE Buffer(ReplaceFrom(buf.content, old, new, 1))

(***************************************************************************)
(* Values the patchers render                                              *)
(***************************************************************************)
Warning == "^"
Target == "%"

Sp(n) == SubSeq("                        ", 1, n)

\* f'risk-{data["riskLevel"].lower().replace("-", "")}'
RiskClass(d) == "risk-" \o ReplaceFrom(StrLower(d.riskLevel), "-", "", 1)

\* sep.join(items)
RECURSIVE Join(_, _)
Join(sep, items) ==
    IF items = <<>> THEN ""
    ELSE IF Len(items) = 1 THEN items[1]
    ELSE items[1] \o sep \o Join(sep, Tail(items))

\* datetime.now(): year, month, day, hour (0..23) and minute
MonthNames ==
    <<"January", "February", "March", "April", "May", "June", "July", "August",
      "September", "October", "November", "December">>

TwoDigits(n) == IF n < 10 THEN "0" \o ToString(n) ELSE ToString(n)

\* strftime("%I:%M %p PST")
ClockTime(now) ==
    TwoDigits(IF now.hour % 12 = 0 THEN 12 ELSE now.hour % 12) \o ":" \o TwoDigits(now.minute)
    \o " " \o (IF now.hour < 12 THEN "AM" ELSE "PM") \o " PST"

\* strftime('%B %d, %Y')
WeekOf(now) == MonthNames[now.month] \o " " \o TwoDigits(now.day) \o ", " \o ToString(now.year)

\* strftime("%B %d, %Y at %I:%M %p PST")
Timestamp(now) == WeekOf(now) \o " at " \o ClockTime(now)

\* strftime("%b %d, %Y at %I:%M %p PST")
ShortTimestamp(now) ==
    SubSeq(MonthNames[now.month], 1, 3) \o " " \o TwoDigits(now.day) \o ", "
    \o ToString(now.year) \o " at " \o ClockTime(now)

(***************************************************************************)
(* update_main_dashboard: the anchors                                      *)
(***************************************************************************)
BadgeOpen == "<span class=\"risk-level "
P0CounterOpen == "<div class=\"stat-mini-value\" style=\"color: #d44c47;\">"
SecondCounterOpen == "<div class=\"stat-mini-value\" style=\"color: #cb912f;\">"
CounterLabelOpen == "<div class=\"stat-mini-label\">"
TopOpen == "<div style=\"margin-bottom: 8px;\">"
CriticalOpen == "<div class=\"risk-item critical\">"
WarningComment == "<!-- UPDATE: Warning message -->"
LinkOpen == "<a href=\"reports/"
LinkClose == ".html\" class=\"view-full-report\">"
LastUpdated == "<span class=\"last-updated\">Last Updated:</span> "
RcStampOpen == "<div style=\"font-size: 10px; color: #9b9a97; margin-bottom: 8px;\">"

\* the label of the second counter: 'Red Flags', in the fetch variant 'Medium Risk'
SecondCounterLabel(v) == IF v = "fetch" THEN "Medium Risk" ELSE "Red Flags"

CounterPat(open, label) ==
    <<Mark, Lit(open), Mark, Cls(DigitSet, 1),
      Mark, Lit("</div>"), Cls(SpaceSet, 0), Lit(CounterLabelOpen \o label), Mark>>

\* (?:<div class="risk-item critical">.*?</div>\s*)
CriticalBlock == <<Lit(CriticalOpen), Lazy({}), Lit("</div>"), Cls(SpaceSet, 0)>>

\* the top-concerns anchor of the auto and manual variants, {1,3} unrolled
TopPat ==
    <<Mark, Lit(TopOpen), Lazy({}), Lit("</div>"), Cls(SpaceSet, 0), Mark, Mark>>
    \o CriticalBlock \o <<Opt(CriticalBlock \o <<Opt(CriticalBlock)>>), Mark>>

\* the top-concerns anchor of the fetch variant
TopPatFetch ==
    <<Mark, Lit(TopOpen), Lazy({}), Lit("Top Concerns:</div>"), Cls(SpaceSet, 0),
      Lit("</div>"), Cls(SpaceSet, 0), Mark, Mark, Lazy({}), Mark,
      Mark, Cls(SpaceSet, 0), Lit(WarningComment), Mark>>

\* the ops of update_main_dashboard, in the order they run
DashboardOps(v) ==
    <<"badge", "version", "p0count", "secondcount", "top", "link", "lastupdated">>
    \o (IF v = "fetch" THEN <<"rcstamp">> ELSE <<>>)

\* the pattern of a dashboard op
DashboardPat(op, v) ==
    CASE op = "badge" ->
               <<Mark, Lit(BadgeOpen), Mark, Lit("risk-"), Cls(WordSet, 1), Mark, Lit("\">"),
                 Mark, NotCls({"<"}, 1), Mark, Lit("</span>"), Mark>>
      [] op = "version" ->
               <<Mark, Lit("<strong>Android RC "), Mark, Cls(DigitSet \cup {"."}, 1),
                 Mark, Lit("</strong> @ Week of "), Mark, NotCls({"<"}, 1)>>
      [] op = "p0count" -> CounterPat(P0CounterOpen, "P0 Items")
      [] op = "secondcount" -> CounterPat(SecondCounterOpen, SecondCounterLabel(v))
      [] op = "top" -> IF v = "fetch" THEN TopPatFetch ELSE TopPat
      [] op = "link" ->
               <<Mark, Lit(LinkOpen), Mark, Cls(DigitSet \cup {"-"}, 1), Mark, Lit(LinkClose),
                 Mark>>
      [] op = "lastupdated" -> <<Mark, Lit(LastUpdated), Mark, NotCls({Bullet}, 1)>>
      [] op = "rcstamp" ->
               <<Mark, Lit(RcStampOpen), Mark, Cls(SpaceSet, 0), Lit("Last updated: "),
                 NotCls({"<"}, 1)>>

\* the number of groups the pattern of a dashboard op is written with
DashboardGroups(op, v) ==
    CASE op = "top" -> IF v = "fetch" THEN 3 ELSE 2
      [] op = "rcstamp" -> 1
      [] op = "badge" -> IF v = "auto" THEN 3 ELSE 0
      [] op = "lastupdated" -> IF v = "auto" THEN 1 ELSE 0
      [] OTHER -> IF v = "auto" THEN 2 ELSE 0

\* the rendered blocks of the top concerns
top_3_html(d, v) ==
    LET \* data['p0Items'][:3]
        n == IF Len(d.p0Items) < 3 THEN Len(d.p0Items) ELSE 3
        Block(item) ==
            (IF v = "fetch" THEN "" ELSE "\n" \o Sp(16))
            \o CriticalOpen \o "\n"
            \o Sp(20) \o "<div class=\"risk-item-title\">" \o item.title \o "</div>\n"
            \o Sp(20) \o "<div class=\"risk-item-description\">"
            \o (IF item.description # "" THEN item.description ELSE item.full_text) \o "</div>\n"
            \o Sp(16) \o "</div>\n"
            \o Sp(16)
    IN  Join("", [i \in 1..n |-> Block(d.p0Items[i])])

CounterText(open, n, label) ==
    open \o ToString(n) \o "</div>\n" \o Sp(24) \o CounterLabelOpen \o label

\* the replacement template of a dashboard op
DashboardRepl(op, c) ==
    LET d == c.data
        v == c.variant
        auto == v = "auto"
    IN  CASE op = "badge" ->
               IF auto THEN "\\1" \o RiskClass(d) \o "\\2" \o d.riskLevel \o "\\3"
               ELSE BadgeOpen \o RiskClass(d) \o "\">" \o d.riskLevel \o "</span>"
          [] op = "version" ->
               IF auto THEN "\\1" \o c.version \o "\\2" \o c.week_of
               ELSE "<strong>Android RC " \o c.version \o "</strong> @ Week of " \o c.week_of
          [] op = "p0count" ->
               IF auto THEN "\\1" \o ToString(Len(d.p0Items)) \o "\\2"
               ELSE CounterText(P0CounterOpen, Len(d.p0Items), "P0 Items")
          [] op = "secondcount" ->
               IF auto THEN "\\1" \o ToString(Len(d.otherChanges)) \o "\\2"
               ELSE CounterText(SecondCounterOpen, Len(d.otherChanges), SecondCounterLabel(v))
          [] op = "top" ->
               IF v = "fetch" THEN "\\1\n" \o Sp(16) \o Strip(top_3_html(d, v)) \o "\\3"
               ELSE "\\1" \o Strip(top_3_html(d, v)) \o "\n" \o Sp(16)
          [] op = "link" ->
               IF auto THEN "\\1" \o c.report_date \o "\\2"
               ELSE LinkOpen \o c.report_date \o LinkClose
          [] op = "lastupdated" ->
               IF auto THEN "\\1" \o Timestamp(c.now)
               ELSE LastUpdated \o Timestamp(c.now)
          [] op = "rcstamp" ->
               "\\1\n" \o Sp(20) \o "Last updated: " \o ShortTimestamp(c.now)

\* whether the op runs at all: the fetch variant renders the top concerns
\* only "if data['p0Items']"
DashboardGuard(op, c) ==
    op = "top" /\ c.variant = "fetch" => c.data.p0Items # <<>>

\* count=1, or no count for the footer timestamp
DashboardCount(op) == IF op = "lastupdated" THEN 0 ELSE 1

\* one op of update_main_dashboard on the buffer
DashboardOp(op, c, buf) ==
    IF DashboardGuard(op, c)
    THEN Sub(DashboardPat(op, c.variant), DashboardGroups(op, c.variant),
             DashboardRepl(op, c), buf, DashboardCount(op))
    ELSE buf

\* the ops of a sequence, those of skip left out, applied in order
RECURSIVE DashboardRun(_, _, _, _)
DashboardRun(ops, skip, c, buf) ==
    IF ops = <<>> THEN buf
    ELSE DashboardRun(Tail(ops), skip, c,
                      IF Head(ops) \in skip THEN buf ELSE DashboardOp(Head(ops), c, buf))

NoFile == "<no file>"

\* a patcher that does not look whether index.html is there and takes a
\* missing file for an empty one
update_main_dashboard_unchecked(index, c) ==
    DashboardRun(DashboardOps(c.variant), {}, c, Buffer(IF index = NoFile THEN "" ELSE index))

(***************************************************************************)
(* update_main_dashboard on the content of index.html: the buffer to       *)
(* write, or the exception raised before anything is written               *)
(***************************************************************************)
update_main_dashboard(index, c) ==
    IF index = NoFile THEN Raise(Buffer(index))
    ELSE DashboardRun(DashboardOps(c.variant), {}, c, Buffer(index))

(***************************************************************************)
(* create_report_page: the anchors                                         *)
(***************************************************************************)
PageBadgeOpen == "<div class=\"risk-badge "
SummaryOpen == "<div class=\"summary-box\">"
SectionTitleOpen == "<div class=\"section-title\">"
SectionClose == "<!-- ========================================"
ZeroFirst == "Localizations (string updates only)"
ZeroLast == "Smart Review"
GeneratedBy == "Generated by Claude AI @ "
ReportId == "Report ID: Android RC "

\* the anchor of a section with the given word in its title
SectionPat(word) ==
    <<Mark, Lit(SectionTitleOpen), Lazy({}), Lit(word), Lazy({}), Lit("</div>"), Mark,
      Mark, Lazy({}), Mark, Mark, Lit("</div>"), Cls(SpaceSet, 0), Lit(SectionClose), Mark>>

\* the ops of create_report_page, in the order they run
ReportOps ==
    <<"title", "shortdate", "longdate", "badge", "summary", "p0", "zero", "redflags",
      "generated", "reportid">>

\* the literal of a str.replace op
ReportLiteral(op) ==
    CASE op = "title" -> "Android RC 4.33.0"
      [] op = "shortdate" -> "Jan 27, 2026"
      [] op = "longdate" -> "January 27, 2026"

ReportPat(op, v) ==
    CASE op = "badge" ->
               <<Lit(PageBadgeOpen \o "risk-"), Cls(WordSet, 1), Lit("\">"), Lazy({"\n"}),
                 Lit("</div>")>>
      [] op = "summary" ->
               <<Mark, Lit(SummaryOpen), Lazy({}), Lit("<strong>Overall Risk Level: "), Mark,
                 NotCls({"<"}, 1), Mark, Lit("</strong><br>\n"), Mark, Mark, Lazy({}), Mark,
                 Mark, Lit("</div>"), Mark>>
      [] op = "p0" -> SectionPat(P0Header)
      [] op = "zero" -> <<Mark, Lit(ZeroFirst), Lazy({}), Lit(ZeroLast), Mark>>
      [] op = "redflags" -> SectionPat(RedFlagsHeader)
      [] op = "generated" ->
               <<Mark, Lit(GeneratedBy), Mark, NotCls({"<"}, 1), Mark, Lit("<br>"), Mark>>
      \* the report identifier: the auto variant's anchor ends with '</div>'
      [] op = "reportid" ->
               <<Mark, Lit(ReportId), Mark, Cls(DigitSet \cup {"."}, 1)>>
               \o (IF v = "auto" THEN <<Mark, Lit("</div>"), Mark>> ELSE <<>>)
      [] op \in {"title", "shortdate", "longdate"} -> <<Lit(ReportLiteral(op))>>

ReportGroups(op, v) ==
    CASE op = "badge" -> 0
      [] op = "summary" -> 4
      [] op \in {"p0", "redflags"} -> 3
      [] op = "zero" -> IF v = "fetch" THEN 0 ELSE 1
      [] op \in {"generated", "reportid"} -> IF v = "auto" THEN 2 ELSE 0
      [] OTHER -> 0

p0_html(d) ==
    LET Block(item) ==
            "\n" \o Sp(12) \o CriticalOpen \o "\n"
            \o Sp(16) \o "<div class=\"risk-item-title\">\n"
            \o Sp(20) \o "<span class=\"emoji\">" \o Target \o "</span>\n"
            \o Sp(20) \o item.title \o "\n"
            \o Sp(16) \o "</div>\n"
            \o Sp(16) \o "<div class=\"risk-item-description\">\n"
            \o Sp(20) \o item.description \o "\n"
            \o Sp(16) \o "</div>\n"
            \o Sp(16) \o "<div class=\"risk-item-impact\">\n"
            \o Sp(20) \o item.full_text \o "\n"
            \o Sp(16) \o "</div>\n"
            \o Sp(12) \o "</div>\n"
    IN  Join("", [i \in 1..Len(d.p0Items) |-> Block(d.p0Items[i])])

red_flags_html(d) ==
    LET Block(change) ==
            "\n" \o Sp(12) \o "<div class=\"risk-item high\">\n"
            \o Sp(16) \o "<div class=\"risk-item-title\">\n"
            \o Sp(20) \o "<span class=\"emoji\">" \o Warning \o "</span>\n"
            \o Sp(20) \o change \o "\n"
            \o Sp(16) \o "</div>\n"
            \o Sp(12) \o "</div>\n"
    IN  Join("", [i \in 1..Len(d.otherChanges) |-> Block(d.otherChanges[i])])

summary_bullets(d) ==
    Join("<br>\n" \o Sp(16), [i \in 1..Len(d.summary) |-> Bullet \o " " \o d.summary[i]])

ReportRepl(op, c) ==
    LET d == c.data
        auto == c.variant = "auto"
    IN  CASE op = "title" -> "Android RC " \o c.version
          [] op \in {"shortdate", "longdate"} -> c.week_of
          [] op = "badge" ->
               PageBadgeOpen \o RiskClass(d) \o "\">" \o Warning \o " " \o d.riskLevel
               \o " RISK</div>"
          [] op = "summary" ->
               "\\1" \o d.riskLevel \o "\\2" \o Sp(16) \o summary_bullets(d) \o "\n"
               \o Sp(12) \o "\\4"
          [] op = "p0" -> "\\1\n" \o p0_html(d) \o "\n" \o Sp(8) \o "\\3"
          [] op = "zero" -> d.zeroRisk
          [] op = "redflags" -> "\\1\n" \o red_flags_html(d) \o "\n" \o Sp(8) \o "\\3"
          [] op = "generated" ->
               IF auto THEN "\\1" \o Timestamp(c.now) \o "\\2"
               ELSE GeneratedBy \o Timestamp(c.now) \o "<br>"
          [] op = "reportid" ->
               IF auto THEN "\\1" \o c.version \o " @ " \o c.week_of \o "\\2"
               ELSE ReportId \o c.version

\* whether the op runs at all
ReportGuard(op, c) ==
    LET d == c.data
        fetch == c.variant = "fetch"
    IN  CASE op = "summary" -> fetch => d.summary # <<>>
          [] op = "p0" -> fetch => d.p0Items # <<>>
          [] op = "zero" -> d.zeroRisk # ""
          [] op = "redflags" -> d.otherChanges # <<>>
          [] OTHER -> TRUE

\* count=1, or no count
ReportCount(op) == IF op \in {"badge", "summary", "p0", "redflags"} THEN 1 ELSE 0

\* one op of create_report_page on the buffer
ReportOp(op, c, buf) ==
    IF ~ReportGuard(op, c) THEN buf
    ELSE IF op \in {"title", "shortdate", "longdate"}
    THEN StrReplace(ReportLiteral(op), ReportRepl(op, c), buf)
    ELSE Sub(ReportPat(op, c.variant), ReportGroups(op, c.variant), ReportRepl(op, c), buf,
             ReportCount(op))

RECURSIVE ReportRun(_, _, _, _)
ReportRun(ops, skip, c, buf) ==
    IF ops = <<>> THEN buf
    ELSE ReportRun(Tail(ops), skip, c,
                   IF Head(ops) \in skip THEN buf ELSE ReportOp(Head(ops), c, buf))

(***************************************************************************)
(* create_report_page on the content of report-template.html: the buffer   *)
(* to write to reports/<date>.html, or the exception raised before         *)
(***************************************************************************)
create_report_page(template, c) ==
    IF template = NoFile THEN Raise(Buffer(template))
    ELSE ReportRun(ReportOps, {}, c, Buffer(template))

(***************************************************************************)
(* Input texts.  A text is a risk-level line, summary lines, and the P0,   *)
(* other-changes and zero-risk sections in the order of the prompt         *)
(* template (CLAUDE_PROMPT_TEMPLATE); every header can be missing, and     *)
(* the lines under a header are drawn from LinePool.                       *)
(***************************************************************************)
NoLine == "<none>"

P0HeaderLine == "P0 ~ Top QA Focus Areas (Must Test)"
OtherHeaderLine == "Other Notable Changes"
ZeroHeaderLine == "No Code Changes (Zero Risk)"

RiskLines ==
    {NoLine,
     "Overall Release Risk Level: HIGH-RISK",
     "Overall Release Risk Level: MEDIUM-HIGH-ish",
     "overall release risk level:   low",
     "Overall Release Risk Level: Medium",
     "Overall Release Risk Level: **HIGH**",
     "Overall Release Risk Level: [HIGH]",
     "Risk note. Overall Release Risk Level:CRITICAL (see below)",
     "Overall Release Risk Level:"}

\* well-formed bullet lines
BulletPool ==
    {"@ VOICE-827 ~ Fixed crash on login",
     "@ Refactored auth module",
     "@ NUX-1844 ~ a ~ b QA-7  ",
     "@   Voice-9 and fix-3 ~",
     "@ ~ X-1Y-22 late"}

\* other lines a report can contain
OddPool ==
    {"@",
     "@   ",
     "Note @ mid-line",
     "plain text line",
     "@ Settings ~ no code changes",
     "@ QA-7 ~ Red flags from review"}

LinePool == BulletPool \cup OddPool

Bodies == UNION {[1..n -> LinePool] : n \in 0..MaxBullets}

DefaultSrc ==
    [risk |-> "Overall Release Risk Level: HIGH-RISK",
     summary |-> <<"@ s1">>,
     hasP0 |-> TRUE,
     p0 |-> <<"@ VOICE-827 ~ Fixed crash on login", "@ Refactored auth module">>,
     hasOther |-> TRUE,
     other |-> <<"@ o1">>,
     hasZero |-> TRUE,
     zero |-> <<"@ Localizations, Smart Review">>,
     eol |-> TRUE]

\* one section varies over Bodies, the rest of the text is the default
FocusInputs ==
    {[DefaultSrc EXCEPT !.summary = b] : b \in Bodies}
    \cup {[DefaultSrc EXCEPT !.p0 = b] : b \in Bodies}
    \cup {[DefaultSrc EXCEPT !.other = b] : b \in Bodies}
    \cup {[DefaultSrc EXCEPT !.zero = b] : b \in Bodies}

\* the risk line and the presence of each header vary
ShapeInputs ==
    {[DefaultSrc EXCEPT !.risk = r, !.hasP0 = hp, !.hasOther = ho, !.hasZero = hz, !.eol = e] :
        r \in RiskLines, hp \in BOOLEAN, ho \in BOOLEAN, hz \in BOOLEAN, e \in BOOLEAN}

Inputs == FocusInputs \cup ShapeInputs

LinesOf(x) ==
    (IF x.risk = NoLine THEN <<>> ELSE <<x.risk>>) \o x.summary
    \o (IF x.hasP0 THEN <<P0HeaderLine>> ELSE <<>>) \o x.p0
    \o (IF x.hasOther THEN <<OtherHeaderLine>> ELSE <<>>) \o x.other
    \o (IF x.hasZero THEN <<ZeroHeaderLine>> ELSE <<>>) \o x.zero

RECURSIVE JoinLines(_)
JoinLines(ls) ==
    IF ls = <<>> THEN ""
    ELSE IF Len(ls) = 1 THEN Head(ls)
    ELSE Head(ls) \o "\n" \o JoinLines(Tail(ls))

Render(x) == JoinLines(LinesOf(x)) \o (IF x.eol THEN "\n" ELSE "")

(***************************************************************************)
(* Documents.  index.html and report-template.html are built from blocks,  *)
(* one block per anchor of the patchers; a document is given by the number *)
(* of copies it holds of each block (0: the anchor is missing, 2 and more: *)
(* the anchor occurs again).                                               *)
(***************************************************************************)
IndexKinds ==
    <<"rcstamp", "badge", "version", "p0count", "redflagscount", "mediumcount", "top", "link",
      "lastupdated">>

IndexBlock(kind) ==
    CASE kind = "rcstamp" ->
           RcStampOpen \o "\n" \o Sp(4) \o "Last updated: Jan 20, 2026 at 09:00 AM PST\n</div>\n"
      [] kind = "badge" -> BadgeOpen \o "risk-low\">LOW</span>\n"
      [] kind = "version" ->
           "<div><strong>Android RC 4.33.0</strong> @ Week of Jan 27, 2026</div>\n"
      [] kind = "p0count" ->
           P0CounterOpen \o "7</div>\n" \o Sp(4) \o CounterLabelOpen \o "P0 Items</div>\n"
      [] kind = "redflagscount" ->
           SecondCounterOpen \o "8</div>\n" \o Sp(4) \o CounterLabelOpen \o "Red Flags</div>\n"
      [] kind = "mediumcount" ->
           SecondCounterOpen \o "9</div>\n" \o Sp(4) \o CounterLabelOpen \o "Medium Risk</div>\n"
      [] kind = "top" ->
           TopOpen \o "\n" \o Sp(4) \o "<div>Top Concerns:</div>\n</div>\n"
           \o CriticalOpen \o "\n"
           \o Sp(4) \o "<div class=\"risk-item-title\">Old title</div>\n"
           \o Sp(4) \o "<div class=\"risk-item-description\">Old text</div>\n"
           \o "</div>\n" \o WarningComment \o "\n"
      [] kind = "link" -> LinkOpen \o "2026-01-27" \o LinkClose \o "View Full Report</a>\n"
      [] kind = "lastupdated" ->
           "<div>" \o LastUpdated \o "January 20, 2026 at 09:00 AM PST @ v1</div>\n"

TemplateKinds ==
    <<"title", "shortdate", "longdate", "badge", "summary", "p0", "zero", "redflags",
      "generated", "reportid">>

TemplateBlock(kind) ==
    CASE kind = "title" -> "<title>" \o ReportLiteral("title") \o "</title>\n"
      [] kind = "shortdate" -> "<div class=\"date\">" \o ReportLiteral("shortdate") \o "</div>\n"
      [] kind = "longdate" -> "<h2>Week of " \o ReportLiteral("longdate") \o "</h2>\n"
      [] kind = "badge" -> PageBadgeOpen \o "risk-low\">" \o Warning \o " LOW RISK</div>\n"
      [] kind = "summary" ->
           SummaryOpen \o "\n" \o Sp(4) \o "<strong>Overall Risk Level: LOW</strong><br>\n"
           \o Sp(16) \o Bullet \o " Old summary\n" \o Sp(12) \o "</div>\n"
      [] kind = "p0" ->
           SectionTitleOpen \o Target \o " " \o P0Header \o " Top QA Focus Areas</div>\n"
           \o Sp(4) \o CriticalOpen \o "Old item</div>\n"
           \o "</div>\n" \o SectionClose \o " -->\n"
      [] kind = "zero" ->
           "<p>" \o ZeroFirst \o ", Onboarding, " \o ZeroLast \o "</p>\n"
      [] kind = "redflags" ->
           SectionTitleOpen \o Warning \o " " \o RedFlagsHeader \o "</div>\n"
           \o Sp(4) \o "<div class=\"risk-item high\">Old flag</div>\n"
           \o "</div>\n" \o SectionClose \o " -->\n"
      [] kind = "generated" ->
           "<div>" \o GeneratedBy \o "January 20, 2026 at 09:00 AM PST<br>\n"
      [] kind = "reportid" -> ReportId \o "4.33.0</div>\n"

\* n copies of a block
RECURSIVE Repeat(_, _)
Repeat(block, n) == IF n = 0 THEN "" ELSE block \o Repeat(block, n - 1)

Range(s) == {s[i] : i \in 1..Len(s)}

\* every block once
OneEach(kinds) == [k \in Range(kinds) |-> 1]

DefaultFixture ==
    [index |-> OneEach(IndexKinds), hasIndex |-> TRUE,
     template |-> OneEach(TemplateKinds), hasTemplate |-> TRUE]

\* one of the two documents varies or is missing, the other holds every
\* block once
Fixtures ==
    {[DefaultFixture EXCEPT !.index[k] = n] : k \in Range(IndexKinds), n \in 0..MaxCopies}
    \cup {[DefaultFixture EXCEPT !.template[k] = n] :
              k \in Range(TemplateKinds), n \in 0..MaxCopies}
    \cup {[DefaultFixture EXCEPT !.hasIndex = FALSE],
          [DefaultFixture EXCEPT !.hasTemplate = FALSE]}

\* index.html and report-template.html as the run finds them
IndexBefore ==
    IF fixture.hasIndex
    THEN Join("", [i \in 1..Len(IndexKinds) |->
                      Repeat(IndexBlock(IndexKinds[i]), fixture.index[IndexKinds[i]])])
    ELSE NoFile

TemplateBefore ==
    IF fixture.hasTemplate
    THEN Join("", [i \in 1..Len(TemplateKinds) |->
                      Repeat(TemplateBlock(TemplateKinds[i]),
                             fixture.template[TemplateKinds[i]])])
    ELSE NoFile

\* report texts the patchers are run on: the default text, a text without
\* sections, and a text with more than three P0 bullets
PatchInputs ==
    {DefaultSrc,
     [DefaultSrc EXCEPT !.summary = <<>>, !.hasP0 = FALSE, !.p0 = <<>>, !.hasOther = FALSE,
                        !.other = <<>>, !.hasZero = FALSE, !.zero = <<>>],
     [DefaultSrc EXCEPT !.risk = "Overall Release Risk Level: MEDIUM-HIGH",
                        !.summary = <<"@ s1", "@ s2">>,
                        !.p0 = <<"@ VOICE-827 ~ Fixed crash on login", "@ Refactored auth module",
                                 "@ NUX-1844 ~ a ~ b QA-7  ", "@ PAY-7 ~ Checkout">>,
                        !.other = <<"@ o1", "@ o2">>]}

\* the version of the release, the clock, and the --date argument ("" when
\* it is not given)
DefaultMeta ==
    [version |-> "4.34.0", date |-> "",
     now |-> [year |-> 2026, month |-> 2, day |-> 3, hour |-> 9, minute |-> 15]]

Metas ==
    {DefaultMeta,
     [version |-> "10.2.0", date |-> "2026-11-28",
      now |-> [year |-> 2026, month |-> 11, day |-> 30, hour |-> 14, minute |-> 5]]}

\* report_date = args.date or datetime.now().strftime('%Y-%m-%d')
ReportDate(m) ==
    IF m.date # "" THEN m.date
    ELSE ToString(m.now.year) \o "-" \o TwoDigits(m.now.month) \o "-" \o TwoDigits(m.now.day)

\* the arguments main passes to the patchers
Context ==
    [data |-> data, variant |-> variant, version |-> meta.version, week_of |-> WeekOf(meta.now),
     report_date |-> ReportDate(meta), now |-> meta.now]

(***************************************************************************)
(* The parser run: main() hands the report text to parse_claude_response   *)
(***************************************************************************)
Init ==
    /\ variant \in Variants
    \* the variants differ in where a section ends: the texts that vary the
    \* bullets of a section only are parsed by one of them
    /\ src \in (IF variant = "auto" THEN Inputs ELSE ShapeInputs)
    /\ response = Render(src)
    /\ data = DefaultData
    /\ raised = FALSE
    /\ pc = "start"
    /\ meta = DefaultMeta
    /\ fixture = DefaultFixture
    /\ index_html = IndexBefore
    /\ template_html = TemplateBefore
    /\ report_html = NoFile
    /\ archive_md = NoFile
    /\ runs = 1
    /\ procs = <<>>

Parse ==
    /\ pc = "start"
    /\ LET r == parse_claude_response(response, variant)
       IN  /\ data' = r.data
           /\ raised' = r.raised
    /\ pc' = "parsed"
    /\ UNCHANGED <<variant, src, response, meta, fixture, index_html, template_html,
                   report_html, archive_md, runs, procs>>

Next == Parse

Spec == Init /\ [][Next]_vars

(***************************************************************************)
(* The run of main with the documents on disk: save_full_report,           *)
(* parse_claude_response, update_main_dashboard, create_report_page.  An   *)
(* exception ends the run in main's "except" (pc = "failed").              *)
(***************************************************************************)
\* the runs: every text and release on the documents that hold every block
\* once, every document with the default text and release, and a text whose
\* P0 bullets use the words of the report page's anchors
PatchRuns ==
    {[src |-> s, meta |-> m, fixture |-> DefaultFixture] : s \in PatchInputs, m \in Metas}
    \cup {[src |-> DefaultSrc, meta |-> DefaultMeta, fixture |-> f] : f \in Fixtures}
    \cup {[src |-> [DefaultSrc EXCEPT !.p0 = <<"@ VOICE-827 ~ Red Flags banner crash",
                                               "@ Report ID: Android RC 1.2 shown">>],
            meta |-> DefaultMeta, fixture |-> DefaultFixture]}

InitPatch ==
    /\ variant \in Variants
    /\ \E run \in PatchRuns : src = run.src /\ meta = run.meta /\ fixture = run.fixture
    /\ response = Render(src)
    /\ data = DefaultData
    /\ raised = FALSE
    /\ pc = "fetched"
    /\ index_html = IndexBefore
    /\ template_html = TemplateBefore
    /\ report_html = NoFile
    /\ archive_md = NoFile
    /\ runs = 1
    /\ procs = <<>>

\* a run that goes on without archiving the text
SaveFullReportSkipped ==
    /\ pc = "fetched"
    /\ pc' = "start"
    /\ UNCHANGED <<variant, src, response, data, raised, meta, fixture, index_html,
                   template_html, report_html, archive_md, runs, procs>>

SaveFullReport ==
    /\ pc = "fetched"
    /\ archive_md' = response
    /\ pc' = "start"
    /\ UNCHANGED <<variant, src, response, data, raised, meta, fixture, index_html,
                   template_html, report_html, runs, procs>>

UpdateMainDashboard ==
    /\ pc = "parsed"
    /\ ~raised
    /\ LET r == update_main_dashboard(index_html, Context)
       IN  /\ raised' = r.err
           /\ index_html' = IF r.err THEN index_html ELSE r.content
           /\ pc' = IF r.err THEN "failed" ELSE "dashboard"
    /\ UNCHANGED <<variant, src, response, data, meta, fixture, template_html, report_html,
                   archive_md, runs, procs>>

\* a report step that puts index.html back when it fails
CreateReportPageRollback ==
    /\ pc = "dashboard"
    /\ LET r == create_report_page(template_html, Context)
       IN  /\ raised' = r.err
           /\ report_html' = IF r.err THEN report_html ELSE r.content
           /\ index_html' = IF r.err THEN IndexBefore ELSE index_html
           /\ pc' = IF r.err THEN "failed" ELSE "done"
    /\ UNCHANGED <<variant, src, response, data, meta, fixture, template_html, archive_md, runs, procs>>

CreateReportPage ==
    /\ pc = "dashboard"
    /\ LET r == create_report_page(template_html, Context)
       IN  /\ raised' = r.err
           /\ report_html' = IF r.err THEN report_html ELSE r.content
           /\ pc' = IF r.err THEN "failed" ELSE "done"
    /\ UNCHANGED <<variant, src, response, data, meta, fixture, index_html, template_html,
                   archive_md, runs, procs>>

NextPatch == SaveFullReport \/ Parse \/ UpdateMainDashboard \/ CreateReportPage

SpecPatch == InitPatch /\ [][NextPatch]_vars

\* create_report_page called on its own with the parsed report, as a caller
\* other than main may call it: template in, page out, or the exception
CallCreateReportPage ==
    /\ pc = "parsed"
    /\ ~raised
    /\ LET r == create_report_page(template_html, Context)
       IN  /\ raised' = r.err
           /\ report_html' = IF r.err THEN report_html ELSE r.content
           /\ pc' = IF r.err THEN "failed" ELSE "done"
    /\ UNCHANGED <<variant, src, response, data, meta, fixture, index_html, template_html,
                   archive_md, runs, procs>>

SpecPage == InitPatch /\ [][SaveFullReport \/ Parse \/ CallCreateReportPage]_vars

\* main started again in the same directory, with the same version and
\* date and whatever text this run gets: the files are as the run before
\* left them
NextRun ==
    /\ pc \in {"done", "failed"}
    /\ runs < MaxRuns
    /\ runs' = runs + 1
    /\ src' \in PatchInputs
    /\ response' = Render(src')
    /\ data' = DefaultData
    /\ raised' = FALSE
    /\ pc' = "fetched"
    /\ UNCHANGED <<variant, meta, fixture, index_html, template_html, report_html,
                   archive_md, procs>>

\* the first of the runs: a directory with the documents as shipped
InitRuns == InitPatch /\ meta = DefaultMeta /\ fixture = DefaultFixture

SpecRuns == InitRuns /\ [][NextPatch \/ NextRun]_vars

(***************************************************************************)
(* main from its first step: the source-control call, then the call to the *)
(* report-generation service, then the run above.  Either call returns or  *)
(* raises; main's except clause catches whatever is raised and returns 1.  *)
(***************************************************************************)
InitMain ==
    /\ variant \in Variants
    /\ \E run \in PatchRuns : src = run.src /\ meta = run.meta /\ fixture = run.fixture
    /\ response = ""
    /\ data = DefaultData
    /\ raised = FALSE
    /\ pc = "begin"
    /\ index_html = IndexBefore
    /\ template_html = TemplateBefore
    /\ report_html = NoFile
    /\ archive_md = NoFile
    /\ runs = 1
    /\ procs = <<>>

\* get_latest_release_branches (auto) or extract_repo_and_versions and
\* fetch_changelog_from_github (fetch); the manual variant calls nothing
FetchChangelog ==
    /\ pc = "begin"
    /\ \E ok \in (IF variant = "manual" THEN {TRUE} ELSE BOOLEAN) :
           /\ raised' = ~ok
           /\ pc' = IF ok THEN "compare" ELSE "failed"
    /\ UNCHANGED <<variant, src, response, data, meta, fixture, index_html, template_html,
                   report_html, archive_md, runs, procs>>

\* a call to the service that is made again when it raises
GetClaudeAnalysisRetried ==
    /\ pc = "compare"
    /\ \E ok \in BOOLEAN :
           /\ raised' = ~ok
           /\ response' = IF ok THEN Render(src) ELSE response
           /\ pc' = IF ok THEN "fetched" ELSE "compare"
    /\ UNCHANGED <<variant, src, data, meta, fixture, index_html, template_html,
                   report_html, archive_md, runs, procs>>

\* get_claude_analysis: the text of the report, or the exception of the client
GetClaudeAnalysis ==
    /\ pc = "compare"
    /\ \E ok \in BOOLEAN :
           /\ raised' = ~ok
           /\ response' = IF ok THEN Render(src) ELSE response
           /\ pc' = IF ok THEN "fetched" ELSE "failed"
    /\ UNCHANGED <<variant, src, data, meta, fixture, index_html, template_html,
                   report_html, archive_md, runs, procs>>

SpecMain == InitMain /\ [][FetchChangelog \/ GetClaudeAnalysis \/ NextPatch]_vars

(***************************************************************************)
(* Texts whose sections come in another order than the prompt template     *)
(* asks for: the risk-level line and the summary, then the three sections  *)
(* in the order o.                                                         *)
(***************************************************************************)
InitOrder ==
    /\ variant \in Variants
    /\ \E x \in ShapeInputs :
           \E o \in {p \in [1..3 -> {"p0", "other", "zero"}] :
                        \A i, j \in 1..3 : i # j => p[i] # p[j]} :
               LET Section(k) ==
                       CASE k = "p0" -> (IF x.hasP0 THEN <<P0HeaderLine>> ELSE <<>>) \o x.p0
                         [] k = "other" ->
                                (IF x.hasOther THEN <<OtherHeaderLine>> ELSE <<>>) \o x.other
                         [] k = "zero" ->
                                (IF x.hasZero THEN <<ZeroHeaderLine>> ELSE <<>>) \o x.zero
                   lines == (IF x.risk = NoLine THEN <<>> ELSE <<x.risk>>) \o x.summary
                            \o Section(o[1]) \o Section(o[2]) \o Section(o[3])
               IN  /\ src = [order |-> o] @@ x
                   /\ response = JoinLines(lines) \o (IF x.eol THEN "\n" ELSE "")
    /\ data = DefaultData
    /\ raised = FALSE
    /\ pc = "start"
    /\ meta = DefaultMeta
    /\ fixture = DefaultFixture
    /\ index_html = IndexBefore
    /\ template_html = TemplateBefore
    /\ report_html = NoFile
    /\ archive_md = NoFile
    /\ runs = 1
    /\ procs = <<>>

SpecOrder == InitOrder /\ [][Parse]_vars

(***************************************************************************)
(* Two runs of main at the same time in one directory, for the same date:  *)
(* nothing in the code keeps them apart.  procs holds, for each run, where *)
(* it is (pc), its report text (src) and the content of index.html it has  *)
(* read (buf); and, for the properties, which run wrote each file last     *)
(* (by, 0 for none) and whether a run ever took a step while the other was *)
(* under way (overlap).  A step of a run is one access to a file.          *)
(***************************************************************************)
InitRace ==
    /\ variant \in Variants
    /\ src = DefaultSrc
    /\ response = Render(src)
    /\ data = DefaultData
    /\ raised = FALSE
    /\ pc = "race"
    /\ meta = DefaultMeta
    /\ fixture = DefaultFixture
    /\ index_html = IndexBefore
    /\ template_html = TemplateBefore
    /\ report_html = NoFile
    /\ archive_md = NoFile
    /\ runs = 1
    \* the second run has got a text without sections
    /\ \E s \in {x \in PatchInputs : ~x.hasP0} :
           procs = [pc |-> <<"start", "start">>, src |-> <<DefaultSrc, s>>,
                    buf |-> <<NoFile, NoFile>>,
                    by |-> [archive |-> 0, index |-> 0, report |-> 0],
                    overlap |-> FALSE]

\* a run that keeps an archive that is already there
RaceStepWriteOnce(p) ==
    LET q == 3 - p
        at == procs.pc[p]
        text == Render(procs.src[p])
        c == [Context EXCEPT !.data = parse_claude_response(text, variant).data]
        Goto(l) == [procs EXCEPT !.pc[p] = l,
                                 !.overlap = @ \/ procs.pc[q] \notin {"start", "done", "failed"}]
    IN  /\ UNCHANGED <<variant, src, response, data, raised, pc, meta, fixture,
                       template_html, runs>>
        /\ \* save_full_report: report_path.write_text(claude_response)
           \/ /\ at = "start"
              /\ archive_md' = IF archive_md = NoFile THEN text ELSE archive_md
              /\ procs' = IF archive_md = NoFile THEN [Goto("saved") EXCEPT !.by.archive = p]
                          ELSE Goto("saved")
              /\ UNCHANGED <<index_html, report_html>>
           \* update_main_dashboard: content = index_path.read_text()
           \/ /\ at = "saved"
              /\ procs' = [Goto(IF index_html = NoFile THEN "failed" ELSE "read")
                               EXCEPT !.buf[p] = index_html]
              /\ UNCHANGED <<index_html, report_html, archive_md>>
           \* update_main_dashboard: the substitutions on content, then
           \* index_path.write_text(content)
           \/ /\ at = "read"
              /\ LET r == update_main_dashboard(procs.buf[p], c)
                 IN  /\ index_html' = IF r.err THEN index_html ELSE r.content
                     /\ procs' = IF r.err THEN Goto("failed")
                                 ELSE [Goto("written") EXCEPT !.by.index = p]
              /\ UNCHANGED <<report_html, archive_md>>
           \* create_report_page: content = template_path.read_text()
           \/ /\ at = "written"
              /\ procs' = Goto(IF template_html = NoFile THEN "failed" ELSE "template")
              /\ UNCHANGED <<index_html, report_html, archive_md>>
           \* create_report_page: the substitutions on content, then
           \* report_path.write_text(content)
           \/ /\ at = "template"
              /\ LET r == create_report_page(template_html, c)
                 IN  /\ report_html' = IF r.err THEN report_html ELSE r.content
                     /\ procs' = IF r.err THEN Goto("failed")
                                 ELSE [Goto("done") EXCEPT !.by.report = p]
              /\ UNCHANGED <<index_html, archive_md>>

\* one step of run p
RaceStep(p) ==
    LET q == 3 - p
        at == procs.pc[p]
        text == Render(procs.src[p])
        c == [Context EXCEPT !.data = parse_claude_response(text, variant).data]
        Goto(l) == [procs EXCEPT !.pc[p] = l,
                                 !.overlap = @ \/ procs.pc[q] \notin {"start", "done", "failed"}]
    IN  /\ UNCHANGED <<variant, src, response, data, raised, pc, meta, fixture,
                       template_html, runs>>
        /\ \* save_full_report: report_path.write_text(claude_response)
           \/ /\ at = "start"
              /\ archive_md' = text
              /\ procs' = [Goto("saved") EXCEPT !.by.archive = p]
              /\ UNCHANGED <<index_html, report_html>>
           \* update_main_dashboard: content = index_path.read_text()
           \/ /\ at = "saved"
              /\ procs' = [Goto(IF index_html = NoFile THEN "failed" ELSE "read")
                               EXCEPT !.buf[p] = index_html]
              /\ UNCHANGED <<index_html, report_html, archive_md>>
           \* update_main_dashboard: the substitutions on content, then
           \* index_path.write_text(content)
           \/ /\ at = "read"
              /\ LET r == update_main_dashboard(procs.buf[p], c)
                 IN  /\ index_html' = IF r.err THEN index_html ELSE r.content
                     /\ procs' = IF r.err THEN Goto("failed")
                                 ELSE [Goto("written") EXCEPT !.by.index = p]
              /\ UNCHANGED <<report_html, archive_md>>
           \* create_report_page: content = template_path.read_text()
           \/ /\ at = "written"
              /\ procs' = Goto(IF template_html = NoFile THEN "failed" ELSE "template")
              /\ UNCHANGED <<index_html, report_html, archive_md>>
           \* create_report_page: the substitutions on content, then
           \* report_path.write_text(content)
           \/ /\ at = "template"
              /\ LET r == create_report_page(template_html, c)
                 IN  /\ report_html' = IF r.err THEN report_html ELSE r.content
                     /\ procs' = IF r.err THEN Goto("failed")
                                 ELSE [Goto("done") EXCEPT !.by.report = p]
              /\ UNCHANGED <<index_html, archive_md>>

SpecRace == InitRace /\ [][\E p \in {1, 2} : RaceStep(p)]_vars

(***************************************************************************)
(* What the specification says about a text, stated on the lines the text  *)
(* was built from                                                          *)
(***************************************************************************)
RECURSIVE LTrim(_)
LTrim(s) == IF s # "" /\ Char(s, 1) \in SpaceSet THEN LTrim(Tail(s)) ELSE s

RECURSIVE RTrim(_)
RTrim(s) == IF s # "" /\ Char(s, Len(s)) \in SpaceSet THEN RTrim(SubSeq(s, 1, Len(s) - 1)) ELSE s

Trimmed(s) == RTrim(LTrim(s))

\* the four sections are present, in the order risk, P0, other, zero-risk
Canonical(x) == x.risk # NoLine /\ x.hasP0 /\ x.hasOther /\ x.hasZero

\* a bullet is a line beginning with the bullet glyph; its text follows the glyph
IsBulletLine(l) == Char(l, 1) = Bullet
BulletLines(body) == SelectSeq(body, IsBulletLine)
TextAfterGlyph(l) == Tail(l)

HeaderPhrases == {LowRiskLabel, LowP0Header, LowOtherHeader, LowZeroHeader, LowRedFlagsHeader}

\* a bullet line with one glyph, some text, and no header phrase in it
WellFormedBullet(l) ==
    /\ IsBulletLine(l)
    /\ ~Contains(TextAfterGlyph(l), Bullet)
    /\ Trimmed(TextAfterGlyph(l)) # ""
    /\ \A h \in HeaderPhrases : ~Contains(StrLower(l), h)

Regular(body) == \A i \in 1..Len(body) : WellFormedBullet(body[i])

\* trimmed texts of the bullet lines of a span, empty ones dropped
RECURSIVE BulletEntries(_)
BulletEntries(body) ==
    IF body = <<>> THEN <<>>
    ELSE (IF IsBulletLine(Head(body)) /\ Trimmed(TextAfterGlyph(Head(body))) # ""
          THEN <<Trimmed(TextAfterGlyph(Head(body)))>> ELSE <<>>)
         \o BulletEntries(Tail(body))

Parsed == pc = "parsed"

\* no line of the body contains a section header phrase
NoHeaderInside(body) ==
    \A i \in 1..Len(body) : \A h \in HeaderPhrases : ~Contains(StrLower(body[i]), h)

\* header phrases occur in the header lines only
CleanText(x) == NoHeaderInside(x.summary \o x.p0 \o x.other \o x.zero)

\* the glyph occurs at the start of a line only
GlyphsLead(body) ==
    \A i \in 1..Len(body) : ~Contains(TextAfterGlyph(body[i]), Bullet)

\* the non-empty strings of a sequence, in order
NonEmptyOnly(ts) == SelectSeq(ts, LAMBDA t : t # "")

\* C1: for a text with all four sections in header order, p0Items has exactly
\* one item per bullet line between the P0 header line and the 'Other Notable
\* Changes' header, in source order, the i-th full_text being the i-th
\* bullet's text.  (Stated on the bullets that have text, so that it holds
\* whether or not a bullet line without text counts as an item, and for
\* texts whose glyphs all start a line and whose header phrases all are in
\* header lines.)
C1_OneItemPerP0BulletLine ==
    (Parsed /\ Canonical(src) /\ CleanText(src) /\ GlyphsLead(src.p0)) =>
        NonEmptyOnly([i \in 1..Len(data.p0Items) |-> data.p0Items[i].full_text])
            = BulletEntries(src.p0)

\* C2: every P0 bullet is split once, on its first em dash: title is the
\* (trimmed) text before it and description the (trimmed) text after it, a
\* second em dash staying in description; without an em dash title is the
\* whole bullet and description is empty.
C2_SplitOnFirstSeparator ==
    (Parsed /\ Canonical(src) /\ Regular(src.p0)) =>
        /\ Len(data.p0Items) = Len(src.p0)
        /\ \A i \in 1..Len(src.p0) :
               LET b == TextAfterGlyph(src.p0[i])
                   seps == {k \in 1..Len(b) : Char(b, k) = EmDash}
                   first == CHOOSE k \in seps : \A j \in seps : k <= j
                   it == data.p0Items[i]
               IN  IF seps = {}
                   THEN it.title = Trimmed(b) /\ it.description = ""
                   ELSE /\ it.title = Trimmed(SubSeq(b, 1, first - 1))
                        /\ it.description = Trimmed(SubSeq(b, first + 1, Len(b)))

C2_Witness ==
    /\ Parsed /\ Canonical(src) /\ Regular(src.p0)
    /\ Len(data.p0Items) = 2
    /\ data.p0Items[1].title = "NUX-1844"
    /\ data.p0Items[1].description = "a ~ b QA-7"
    /\ data.p0Items[2].title = "Refactored auth module"
    /\ data.p0Items[2].description = ""

\* shape UPPERCASE-LETTERS + hyphen + digits
IsTicketShape(t) ==
    \E u \in 1..(Len(t) - 2) :
        /\ \A k \in 1..u : Char(t, k) \in UpperSet
        /\ Char(t, u + 1) = "-"
        /\ \A k \in (u + 2)..Len(t) : Char(t, k) \in DigitSet

\* the first substring of b of ticket shape (the longest one at the first
\* position where one starts), or "" when b has none
FirstTicket(b) ==
    LET ups == {i \in 1..Len(b) : Char(b, i) \in UpperSet}
        digs == {j \in 1..Len(b) : Char(b, j) \in DigitSet}
        occ == {ij \in ups \X digs :
                   ij[1] < ij[2] /\ IsTicketShape(SubSeq(b, ij[1], ij[2]))}
        i0 == CHOOSE i \in {ij[1] : ij \in occ} : \A ij \in occ : i <= ij[1]
        j0 == CHOOSE j \in {ij[2] : ij \in {x \in occ : x[1] = i0}} :
                  \A ij \in occ : ij[1] = i0 => ij[2] <= j
    IN  IF occ = {} THEN "" ELSE SubSeq(b, i0, j0)

\* C3 (as claimed): ticket is the first substring of the bullet of shape
\* UPPERCASE-LETTERS + hyphen + digits, or '' when there is none; a non-empty
\* ticket still occurs in full_text; full_text equals the original bullet text
\* unmodified.
C3_FullTextUnmodified ==
    (Parsed /\ Canonical(src) /\ Regular(src.p0)) =>
        /\ Len(data.p0Items) = Len(src.p0)
        /\ \A i \in 1..Len(src.p0) :
               LET it == data.p0Items[i]
               IN  /\ it.ticket = FirstTicket(TextAfterGlyph(src.p0[i]))
                   /\ it.ticket # "" => Contains(it.full_text, it.ticket)
                   /\ it.full_text = LTrim(TextAfterGlyph(src.p0[i]))

\* C3 (amended): ticket is the first substring of the bullet of shape
\* UPPERCASE-LETTERS + hyphen + digits, or '' when there is none; a non-empty
\* ticket still occurs in full_text; full_text is the bullet text with its
\* leading and trailing whitespace trimmed and nothing else changed.
C3_TicketKeptInTrimmedFullText ==
    (Parsed /\ Canonical(src) /\ Regular(src.p0)) =>
        /\ Len(data.p0Items) = Len(src.p0)
        /\ \A i \in 1..Len(src.p0) :
               LET it == data.p0Items[i]
               IN  /\ it.ticket = FirstTicket(TextAfterGlyph(src.p0[i]))
                   /\ it.ticket # "" => Contains(it.full_text, it.ticket)
                   /\ it.full_text = Trimmed(TextAfterGlyph(src.p0[i]))

C3_Witness ==
    /\ Parsed /\ Canonical(src) /\ Regular(src.p0)
    /\ \E i \in 1..Len(src.p0) :
           /\ src.p0[i] = "@ NUX-1844 ~ a ~ b QA-7  "
           /\ data.p0Items[i].ticket = "NUX-1844"
           /\ data.p0Items[i].full_text = "NUX-1844 ~ a ~ b QA-7"
    /\ \E i \in 1..Len(src.p0) :
           /\ src.p0[i] = "@   Voice-9 and fix-3 ~"
           /\ data.p0Items[i].ticket = ""

(***************************************************************************)
(* The risk-level token, read off the text                                 *)
(***************************************************************************)
RECURSIVE SkipSpaces(_, _)
SkipSpaces(text, i) == IF Char(text, i) \in SpaceSet THEN SkipSpaces(text, i + 1) ELSE i

RECURSIVE WordFrom(_, _)
WordFrom(text, i) ==
    IF Char(text, i) \in WordSet THEN Char(text, i) \o WordFrom(text, i + 1) ELSE ""

\* the word token at or after position i (whitespace skipped), with at most
\* one hyphenated suffix; "" when no word token starts there
TokenAfter(text, i) ==
    LET w == SkipSpaces(text, i)
        first == WordFrom(text, w)
        dash == w + Len(first)
        second == IF Char(text, dash) = "-" THEN WordFrom(text, dash + 1) ELSE ""
    IN  IF first = "" THEN ""
        ELSE IF second = "" THEN first
        ELSE first \o "-" \o second

\* positions just after an occurrence of the label, in any letter case
LabelEnds(text) ==
    LET low == StrLower(text)
    IN  {h + Len(RiskLabel) : h \in {k \in 1..Len(text) : LitAt(low, LowRiskLabel, k)}}

\* C4 (as claimed): whenever the label occurs, riskLevel is the uppercased word
\* token (with at most one hyphenated suffix) that follows it; riskLevel is
\* 'MEDIUM' exactly when the label is absent.
C4_MediumExactlyWhenLabelAbsent ==
    Parsed =>
        LET ends == LabelEnds(response)
        IN  /\ ends # {} => data.riskLevel = StrUpper(TokenAfter(response, MinOf(ends)))
            /\ data.riskLevel = "MEDIUM" <=> ends = {}

\* C4 (amended): riskLevel is the uppercased word token (with at most one
\* hyphenated suffix) following the first occurrence of the label that is
\* followed, after optional whitespace, by a word token; it is 'MEDIUM' when
\* there is no such occurrence (the label is absent, or is not followed by a
\* word token).
C4_TokenAfterLabelElseMedium ==
    Parsed =>
        LET good == {e \in LabelEnds(response) : TokenAfter(response, e) # ""}
        IN  data.riskLevel = IF good = {} THEN "MEDIUM"
                             ELSE StrUpper(TokenAfter(response, MinOf(good)))

C4_Witness ==
    /\ Parsed
    /\ src.risk = "Overall Release Risk Level: MEDIUM-HIGH-ish"
    /\ data.riskLevel = "MEDIUM-HIGH"

\* C5: zeroRisk is the text of the first bullet line following the 'No Code
\* Changes' header and of that line only, whatever lines follow it.
C5_ZeroRiskIsOneLine ==
    (Parsed /\ Canonical(src) /\ CleanText(src) /\ src.zero # <<>>
        /\ WellFormedBullet(src.zero[1])) =>
        data.zeroRisk = Trimmed(TextAfterGlyph(src.zero[1]))

\* lines after the risk-level line and before the P0 header, or to the end of
\* the text when there is no P0 header
SummarySpan(x) ==
    x.summary \o
    (IF x.hasP0 THEN <<>>
     ELSE x.p0 \o (IF x.hasOther THEN <<OtherHeaderLine>> ELSE <<>>) \o x.other
          \o (IF x.hasZero THEN <<ZeroHeaderLine>> ELSE <<>>) \o x.zero)

\* C6: summary is exactly the bullets (lines beginning with the glyph) of the
\* span after the risk-level line and before the P0 header or the end of the
\* text, each trimmed, empty ones dropped, in order of appearance.  (Stated
\* for texts whose glyphs all start a line and whose header phrases all are
\* in header lines.)
C6_SummaryIsSpanBullets ==
    (Parsed /\ src.risk # NoLine /\ CleanText(src) /\ GlyphsLead(SummarySpan(src))) =>
        data.summary = BulletEntries(SummarySpan(src))

\* lines after the 'Other Notable Changes' header and before the 'No Code
\* Changes' header, or to the end of the text
OtherSpan(x) ==
    x.other \o (IF x.hasZero THEN <<>> ELSE x.zero)

\* C7: otherChanges has exactly one string per bullet line of the span after
\* the 'Other Notable Changes' header and before the 'No Code Changes' header
\* or the end of the text, in source order, and no bullet from outside it.
\* (Stated on the bullets that have text, for texts whose glyphs all start a
\* line and whose header phrases all are in header lines.)
C7_OtherChangesAreSpanBullets ==
    (Parsed /\ src.hasOther /\ CleanText(src) /\ GlyphsLead(OtherSpan(src))) =>
        data.otherChanges = BulletEntries(OtherSpan(src))

Absent(phrase) == ~Contains(StrLower(response), phrase)

\* C8: parsing never raises; a section whose header is absent gets its
\* default (riskLevel 'MEDIUM', summary [], p0Items [], otherChanges [],
\* zeroRisk ''), in particular zeroRisk is '' without a 'No Code Changes'
\* header.
C8_NeverRaisesDefaults ==
    Parsed =>
        /\ ~raised
        /\ Absent(LowRiskLabel) => data.riskLevel = "MEDIUM" /\ data.summary = <<>>
        /\ Absent(LowP0Header) => data.p0Items = <<>>
        /\ Absent(LowOtherHeader) => data.otherChanges = <<>>
        /\ Absent(LowZeroHeader) => data.zeroRisk = ""

C8_Witness ==
    /\ Parsed /\ ~raised
    /\ Absent(LowZeroHeader) /\ Absent(LowRiskLabel)
    /\ ~Absent(LowP0Header)
    /\ data.zeroRisk = "" /\ data.riskLevel = "MEDIUM"
    /\ Len(data.p0Items) = 2

(***************************************************************************)
(* What the specification says about the patchers, stated on the blocks    *)
(* the documents were built from                                           *)
(***************************************************************************)
\* number of places of a text where a literal occurs
Occurrences(text, lit) == Cardinality({i \in 1..Len(text) : LitAt(text, lit, i)})

\* of the copies of a block index.html held, the first at most is rewritten:
\* all but one of them are in the patched document as they were
IndexCopiesKept ==
    \A k \in Range(IndexKinds) :
        Occurrences(index_html, IndexBlock(k)) >= fixture.index[k] - 1

\* the same of the copies of a block of report-template.html and the report
\* page written
TemplateCopiesKept ==
    \A k \in Range(TemplateKinds) :
        Occurrences(report_html, TemplateBlock(k)) >= fixture.template[k] - 1

\* C9: every substitution of update_main_dashboard and create_report_page is
\* single-shot: when the anchor of an op occurs more than once in the
\* document, only the first occurrence is rewritten and every later
\* occurrence is byte-identical after the run.
C9_SingleShot ==
    /\ (pc \in {"dashboard", "done"} /\ fixture.hasIndex) => IndexCopiesKept
    /\ (pc = "done" /\ fixture.hasTemplate) => TemplateCopiesKept

\* the anchor of an op of update_main_dashboard does not occur in a document
DashboardAnchorAbsent(op, doc) == ~Search(DashboardPat(op, variant), doc, 1).found

\* the anchor of an op of create_report_page does not occur in a document
ReportAnchorAbsent(op, doc) ==
    IF op \in {"title", "shortdate", "longdate"} THEN ~Contains(doc, ReportLiteral(op))
    ELSE ~Search(ReportPat(op, variant), doc, 1).found

\* the patcher of index.html has run, on a file that was there
DashboardRan == pc \in {"dashboard", "done", "failed"} /\ fixture.hasIndex

\* the patcher of the report page has run, on a template that was there
ReportRan ==
    /\ pc \in {"done", "failed"} /\ fixture.hasTemplate
    /\ ~update_main_dashboard(IndexBefore, Context).err

\* C10: an op whose anchor does not occur in the document leaves the buffer
\* unchanged and raises nothing, the remaining ops still run, and the final
\* document is the one of the same op sequence with that op omitted.
C10_MissingAnchorSkipped ==
    /\ DashboardRan =>
           \A op \in Range(DashboardOps(variant)) :
               DashboardAnchorAbsent(op, IndexBefore) =>
                   /\ DashboardOp(op, Context, Buffer(IndexBefore)) = Buffer(IndexBefore)
                   /\ update_main_dashboard(IndexBefore, Context)
                          = DashboardRun(DashboardOps(variant), {op}, Context,
                                         Buffer(IndexBefore))
    /\ ReportRan =>
           \A op \in Range(ReportOps) :
               ReportAnchorAbsent(op, TemplateBefore) =>
                   /\ ReportOp(op, Context, Buffer(TemplateBefore)) = Buffer(TemplateBefore)
                   /\ create_report_page(TemplateBefore, Context)
                          = ReportRun(ReportOps, {op}, Context, Buffer(TemplateBefore))

\* index.html as the run finds it, with block in place of the first copy of
\* the block of a kind
IndexWith(kind, block) ==
    Join("", [i \in 1..Len(IndexKinds) |->
                 LET k == IndexKinds[i]
                     n == fixture.index[k]
                 IN  IF k = kind /\ n >= 1 THEN block \o Repeat(IndexBlock(k), n - 1)
                     ELSE Repeat(IndexBlock(k), n)])

\* the block an op of the dashboard rewrites
KindOf(op) ==
    IF op = "secondcount" THEN (IF variant = "fetch" THEN "mediumcount" ELSE "redflagscount")
    ELSE op

\* the block of a counter or of the badge with the hole filled and the text
\* around the hole as it was
Filled(op) ==
    CASE op = "badge" -> BadgeOpen \o RiskClass(data) \o "\">" \o data.riskLevel \o "</span>\n"
      [] op = "p0count" ->
           P0CounterOpen \o ToString(Len(data.p0Items)) \o "</div>\n" \o Sp(4)
           \o CounterLabelOpen \o "P0 Items</div>\n"
      [] op = "secondcount" ->
           SecondCounterOpen \o ToString(Len(data.otherChanges)) \o "</div>\n" \o Sp(4)
           \o CounterLabelOpen \o SecondCounterLabel(variant) \o "</div>\n"

\* C11: for every op whose anchor matches, the resulting buffer is the input
\* buffer with only the hole of the anchor replaced by the value (the decimal
\* count, the risk level); the text of the anchor around the hole is kept
\* byte for byte.
C11_OnlyHoleReplaced ==
    DashboardRan =>
        \A op \in {"badge", "p0count", "secondcount"} :
            ~DashboardAnchorAbsent(op, IndexBefore) =>
                DashboardOp(op, Context, Buffer(IndexBefore))
                    = Buffer(IndexWith(KindOf(op), Filled(op)))

\* the version line, the link and the report identifier with the caller's
\* version, week label and date identifier in them
VersionLine ==
    "<strong>Android RC " \o meta.version \o "</strong> @ Week of " \o WeekOf(meta.now)
    \o "</div>"

ReportLink == LinkOpen \o ReportDate(meta) \o LinkClose \o "View Full Report</a>"

ReportIdLine ==
    ReportId \o meta.version
    \o (IF variant = "auto" THEN " @ " \o WeekOf(meta.now) ELSE "") \o "</div>"

\* C12: the version (digits.digits.digits), the week label and the date
\* identifier (YYYY-MM-DD) of the caller are in the patched dashboard's
\* version line and link and in the report page's identifier unmodified,
\* the text of the anchor before and after them intact.
C12_MetadataUnmodified ==
    /\ (DashboardRan /\ ~DashboardAnchorAbsent("version", IndexBefore)) =>
           LET r == update_main_dashboard(IndexBefore, Context)
           IN  ~r.err /\ Contains(r.content, VersionLine)
    /\ (DashboardRan /\ ~DashboardAnchorAbsent("link", IndexBefore)) =>
           LET r == update_main_dashboard(IndexBefore, Context)
           IN  ~r.err /\ Contains(r.content, ReportLink)
    /\ (pc = "done" /\ ~ReportAnchorAbsent("reportid", TemplateBefore)) =>
           Contains(report_html, ReportIdLine)

\* index.html has been patched, and held the top-concerns region once
TopPatched == pc \in {"dashboard", "done"} /\ fixture.hasIndex /\ fixture.index["top"] = 1

\* C13: after update_main_dashboard on a document with the top-concerns
\* anchor and with p0Items non-empty, the region holds exactly
\* min(3, len(p0Items)) critical blocks, rendered from the first three
\* p0Items in order, and nothing of its previous content.
C13_TopConcernsReplaced ==
    (TopPatched /\ data.p0Items # <<>>) =>
        /\ Occurrences(index_html, CriticalOpen)
               = (IF Len(data.p0Items) < 3 THEN Len(data.p0Items) ELSE 3)
        /\ Contains(index_html, Strip(top_3_html(data, variant)))
        /\ ~Contains(index_html, "Old title")
        /\ ~Contains(index_html, "Old text")

\* C14: with p0Items empty, the dashboard's top-concerns region and the
\* report page's P0 section are byte-identical before and after patching,
\* in every variant, and the P0 counter renders 0.
C14_EmptyP0Untouched ==
    data.p0Items = <<>> =>
        /\ (pc \in {"dashboard", "done"} /\ fixture.hasIndex) =>
               /\ Occurrences(index_html, IndexBlock("top")) = fixture.index["top"]
               /\ fixture.index["p0count"] >= 1 =>
                      Contains(index_html, P0CounterOpen \o "0</div>")
        /\ pc = "done" =>
               Occurrences(report_html, TemplateBlock("p0")) = fixture.template["p0"]

\* C15: with otherChanges empty, create_report_page leaves the Red Flags
\* section of the page byte-identical to the template's; with otherChanges
\* non-empty, the body of the section is one rendered block per entry, in
\* source order, in place of the template's.
C15_RedFlagsSection ==
    (pc \in {"done", "failed"} /\ fixture.hasTemplate /\ fixture.template["redflags"] = 1) =>
        IF data.otherChanges = <<>>
        THEN Occurrences(report_html, TemplateBlock("redflags")) = 1
        ELSE /\ Contains(report_html, red_flags_html(data))
             /\ ~Contains(report_html, "Old flag")

\* C17: if index.html is absent when update_main_dashboard starts, the run
\* aborts (main returns 1), index.html is neither created nor written and
\* create_report_page does not run; if report-template.html is absent when
\* create_report_page starts, the run aborts and reports/<date>.html is not
\* written.
C17_MissingFileAborts ==
    /\ (~fixture.hasIndex /\ pc \in {"dashboard", "done", "failed"}) =>
           /\ pc = "failed" /\ raised
           /\ index_html = NoFile
           /\ report_html = NoFile
    /\ (~fixture.hasTemplate /\ pc \in {"done", "failed"}) =>
           /\ pc = "failed" /\ raised
           /\ report_html = NoFile

\* a run on a directory without index.html has ended
C17_Witness == ~fixture.hasIndex /\ fixture.hasTemplate /\ pc = "failed" /\ variant = "manual"

\* what a run has persisted: write_text is the only writer of each file
ArchiveWritten == archive_md # NoFile
IndexWritten == index_html # IndexBefore
ReportWritten == report_html # NoFile

\* C18 as stated: in every final state of main, index.html, the report
\* page and the archived text have all been written by the run, or none of
\* them has.
C18_AllOrNothing ==
    pc \in {"done", "failed"} =>
        \/ ArchiveWritten /\ IndexWritten /\ ReportWritten
        \/ ~ArchiveWritten /\ ~IndexWritten /\ ~ReportWritten

\* C18, amended: in every state of main, final ones included, the artifacts
\* written by the run are an initial part of the order archived text,
\* index.html, report page; a run that completes has written all three.
C18_WrittenInOrder ==
    /\ ReportWritten => IndexWritten
    /\ IndexWritten => ArchiveWritten
    /\ pc = "done" => ArchiveWritten /\ IndexWritten /\ ReportWritten

\* a run has failed after it wrote the archive and index.html
C18_Witness == pc = "failed" /\ ArchiveWritten /\ IndexWritten /\ ~ReportWritten

\* C19: there is no rollback: when update_main_dashboard has written
\* index.html and create_report_page then fails, index.html keeps the
\* content update_main_dashboard wrote, in the final state, and main
\* returns 1.
C19_NoRollback ==
    [][(pc = "dashboard" /\ pc' = "failed") =>
           /\ raised'
           /\ index_html' = update_main_dashboard(IndexBefore, Context).content
           /\ index_html' # IndexBefore
           /\ report_html' = NoFile]_vars

\* the report step has failed for want of the template, after index.html
\* was written
C19_Witness == pc = "failed" /\ fixture.hasIndex /\ ~fixture.hasTemplate /\ IndexWritten

\* C20: the archived text of a date is written once: once
\* claude_reports/report_<date>.md exists, no later run with the same date
\* changes its content, whatever text that run has.
C20_ArchiveWrittenOnce == [][archive_md # NoFile => archive_md' = archive_md]_vars

\* C21: if the source-control call or the report-generation call raises,
\* main returns 1 at once: the call is not made again, no step follows the
\* failure, and at that point none of index.html, the report page and the
\* archived text has been written.
C21_UpstreamFailureFatal ==
    [][/\ pc # "failed"
       /\ pc \in {"begin", "compare"} =>
              /\ raised' => pc' = "failed"
              /\ archive_md' = NoFile
              /\ index_html' = IndexBefore
              /\ report_html' = NoFile]_vars

\* the report-generation call has raised after the source-control call
\* returned
C21_Witness ==
    pc = "failed" /\ raised /\ response = "" /\ variant # "manual" /\ archive_md = NoFile

\* the lines that follow a header up to the next header that is present
UnderZero(x) == IF x.hasZero THEN <<>> ELSE x.zero
UnderOther(x) == IF x.hasOther THEN <<>> ELSE x.other \o UnderZero(x)
UnderP0(x) == IF x.hasP0 THEN <<>> ELSE x.p0 \o UnderOther(x)

\* C22: a missing section header does not make one section swallow another:
\* for a text in header order with any of the P0, 'Other Notable Changes'
\* and 'No Code Changes' headers removed, every bullet is in at most one
\* field, the field of the nearest preceding header that is present.
\* (Stated for texts whose bullet lines all are well formed.)
C22_NoSwallowing ==
    (Parsed /\ src.risk # NoLine /\ CleanText(src)
        /\ Regular(src.summary \o src.p0 \o src.other \o src.zero)) =>
        /\ data.summary = BulletEntries(src.summary \o UnderP0(src))
        /\ [i \in 1..Len(data.p0Items) |-> data.p0Items[i].full_text]
               = (IF src.hasP0 THEN BulletEntries(src.p0 \o UnderOther(src)) ELSE <<>>)
        /\ data.otherChanges
               = (IF src.hasOther THEN BulletEntries(src.other \o UnderZero(src)) ELSE <<>>)

\* C23: parsing tolerates ordering drift: for a text with the risk-level
\* line and the P0, 'Other Notable Changes' and 'No Code Changes' sections
\* in any relative order, each bullet is in the field of the header it
\* stands under and in no other field.
C23_OrderTolerant ==
    (Parsed /\ Canonical(src) /\ CleanText(src)) =>
        /\ data.summary = BulletEntries(src.summary)
        /\ [i \in 1..Len(data.p0Items) |-> data.p0Items[i].full_text] = BulletEntries(src.p0)
        /\ data.otherChanges = BulletEntries(src.other)
        /\ data.zeroRisk = BulletEntries(src.zero)[1]

\* C25: the dashboard patch is idempotent across runs: update_main_dashboard
\* run on the index.html a first run produced, with the same parsed report,
\* version, week label, date and clock value, leaves index.html
\* byte-identical.
C25_IdempotentAcrossRuns ==
    [][(/\ pc = "parsed" /\ ~raised /\ runs = 2
        /\ ~update_main_dashboard(IndexBefore, Context).err
        /\ index_html = update_main_dashboard(IndexBefore, Context).content) =>
           (pc' = "dashboard" /\ index_html' = index_html)]_vars

\* C26: in create_report_page, text injected by an earlier op never becomes
\* the match of a later op's anchor: whatever the report says, the P0,
\* red-flags and footer ops each rewrite the template's own region for
\* their field, and the text they injected stays as injected.
C26_InjectedTextInert ==
    (pc = "done" /\ fixture = DefaultFixture
        /\ data.p0Items # <<>> /\ data.otherChanges # <<>>) =>
        /\ Contains(report_html, p0_html(data))
        /\ Contains(report_html, red_flags_html(data))
        /\ ~Contains(report_html, "Old item")
        /\ ~Contains(report_html, "Old flag")

\* both runs have ended
RaceOver == \A p \in {1, 2} : procs.pc[p] \in {"done", "failed"}

NoRedFlags == ~Contains(StrLower(response), LowRedFlagsHeader)

\* C28: the parsers of the three variants are equivalent but for the 'Red
\* Flags' alias: those of weekly_automation.py and weekly_automation_manual.py
\* return equal records on every text, and the one of
\* weekly_automation_with_fetch.py returns the same record on every text
\* without the phrase 'Red Flags'; with the phrase it can differ in p0Items
\* and otherChanges only, whose spans it ends at the phrase as well.
C28_ParsersEquivalent ==
    Parsed =>
        \A v \in Variants :
            LET other == parse_claude_response(response, v).data
            IN  /\ (NoRedFlags \/ "fetch" \notin {v, variant} \/ v = variant) => other = data
                /\ other.riskLevel = data.riskLevel
                /\ other.summary = data.summary
                /\ other.zeroRisk = data.zeroRisk
                /\ v = "fetch" => /\ Len(other.p0Items) <= Len(data.p0Items)
                                  /\ Len(other.otherChanges) <= Len(data.otherChanges)

\* a text with the phrase has been parsed by weekly_automation.py, and the
\* parser of weekly_automation_with_fetch.py returns another record for it
C28_Witness ==
    /\ Parsed /\ variant = "auto" /\ ~NoRedFlags
    /\ parse_claude_response(response, "manual").data = data
    /\ parse_claude_response(response, "fetch").data # data

====
